---- MODULE Spec2Model ----
(***************************************************************************)
(* World of Rigid Bodies (WoRB): a model of the simulation core.           *)
(*                                                                         *)
(* Numbers.  The program computes in IEEE doubles.  The model computes in  *)
(* fixed point: the integer n stands for the real n / One.  Products and   *)
(* quotients are rounded toward zero.  A non-finite double (NaN, the       *)
(* result of 0/0) is the integer NaN, which no finite value of the model   *)
(* reaches.                                                                *)
(***************************************************************************)
EXTENDS Integers, Naturals, Sequences, FiniteSets, TLC

\* The fixed-point unit: the double 1.0.
One == 1000

\* A non-finite double (0.0/0.0).
NaN == -2000000000

\* ---------------------------------------------------------------------------
\* Scalar arithmetic on doubles
\* ---------------------------------------------------------------------------

\* fabs()
Abs(a) == IF a < 0 THEN 0 - a ELSE a

\* The product of two magnitudes with a sign.  The larger magnitude comes
\* first, its whole and its fractional part multiplied apart, so that no
\* intermediate value overflows.
MulSigned(A, B, sign) ==
    sign * (IF A >= B
            THEN (A \div One) * B + ((A % One) * B) \div One
            ELSE (B \div One) * A + ((B % One) * A) \div One)

\* double * double, rounded toward zero
FMul(a, b) == MulSigned(Abs(a), Abs(b), IF (a < 0) = (b < 0) THEN 1 ELSE -1)

\* double / double, rounded toward zero; the divisor is not zero
FDiv(a, b) ==
    (IF (a < 0) = (b < 0) THEN 1 ELSE -1)
        * ((Abs(a) \div Abs(b)) * One + ((Abs(a) % Abs(b)) * One) \div Abs(b))

RECURSIVE SqrtIter(_, _, _)
SqrtIter(n, lo, hi) ==
    IF lo >= hi THEN lo
    ELSE LET mid == (lo + hi + 1) \div 2
         IN  IF mid * mid <= n THEN SqrtIter(n, mid, hi)
                               ELSE SqrtIter(n, lo, mid - 1)

\* sqrt() of a sum of squares of fixed-point numbers: the result is again a
\* fixed-point number
ISqrt(n) == SqrtIter(n, 0, 46340)

\* ---------------------------------------------------------------------------
\* Quaternion
\* ---------------------------------------------------------------------------

Quaternion(qw, qx, qy, qz) == [w |-> qw, x |-> qx, y |-> qy, z |-> qz]

\* Quaternion(): the zero quaternion
QZero == Quaternion(0, 0, 0, 0)

\* Quaternion( double scalar )
QScalar(s) == Quaternion(s, 0, 0, 0)

SpatialVector(vx, vy, vz) == Quaternion(0, vx, vy, vz)

\* a quaternion all of whose components are not finite
QNaN == Quaternion(NaN, NaN, NaN, NaN)

QIsNaN(q) == q.w = NaN \/ q.x = NaN \/ q.y = NaN \/ q.z = NaN

\* operator [] ( unsigned index )
QIndex(q, i) == IF i = 0 THEN q.x ELSE IF i = 1 THEN q.y ELSE IF i = 2 THEN q.z ELSE q.w

QNeg(q) == Quaternion(0 - q.w, 0 - q.x, 0 - q.y, 0 - q.z)

QAdd(p, q) == Quaternion(p.w + q.w, p.x + q.x, p.y + q.y, p.z + q.z)

QSub(p, q) == Quaternion(p.w - q.w, p.x - q.x, p.y - q.y, p.z - q.z)

\* operator * ( double value )
QScale(q, s) == Quaternion(FMul(q.w, s), FMul(q.x, s), FMul(q.y, s), FMul(q.z, s))

\* operator * ( const Quaternion& q ): the Hamilton product
QMul(p, q) ==
    Quaternion(
        FMul(p.w, q.w) - FMul(p.x, q.x) - FMul(p.y, q.y) - FMul(p.z, q.z),
        FMul(p.w, q.x) + FMul(p.x, q.w) + FMul(p.y, q.z) - FMul(p.z, q.y),
        FMul(p.w, q.y) + FMul(p.y, q.w) + FMul(p.z, q.x) - FMul(p.x, q.z),
        FMul(p.w, q.z) + FMul(p.z, q.w) + FMul(p.x, q.y) - FMul(p.y, q.x))

ComponentWiseProduct(p, q) ==
    Quaternion(FMul(p.w, q.w), FMul(p.x, q.x), FMul(p.y, q.y), FMul(p.z, q.z))

Cross(p, q) ==
    Quaternion(0,
        FMul(p.y, q.z) - FMul(p.z, q.y),
        FMul(p.z, q.x) - FMul(p.x, q.z),
        FMul(p.x, q.y) - FMul(p.y, q.x))

Dot(p, q) == FMul(p.x, q.x) + FMul(p.y, q.y) + FMul(p.z, q.z)

\* sqrt( w^2 + x^2 + y^2 + z^2 ); large components are scaled down first so
\* that the squares stay in range
Hypot(qw, qx, qy, qz) ==
    IF Abs(qw) < 20000 /\ Abs(qx) < 20000 /\ Abs(qy) < 20000 /\ Abs(qz) < 20000
    THEN ISqrt(qw * qw + qx * qx + qy * qy + qz * qz)
    ELSE 64 * ISqrt((qw \div 64) * (qw \div 64) + (qx \div 64) * (qx \div 64)
                    + (qy \div 64) * (qy \div 64) + (qz \div 64) * (qz \div 64))

\* Norm (): sqrt( SquaredNorm () )
Norm(q) == Hypot(q.w, q.x, q.y, q.z)

\* ImNorm (): sqrt( ImSquaredNorm () )
ImNorm(q) == Hypot(0, q.x, q.y, q.z)

ImSquaredNorm(q) == FMul(q.x, q.x) + FMul(q.y, q.y) + FMul(q.z, q.z)

\* Normalize( length ): a zero quaternion becomes the real quaternion `length`
Normalize(q, length) ==
    LET Rescale(norm) ==
            IF norm = 0 THEN [q EXCEPT !.w = length] ELSE QScale(q, FDiv(length, norm))
    IN  IF QIsNaN(q) THEN QNaN ELSE Rescale(Norm(q))

\* ---------------------------------------------------------------------------
\* QTensor: the three upper rows of the 4x4 matrix (the fourth row is 0 0 0 1)
\* ---------------------------------------------------------------------------

QTensor(txx, txy, txz, txw, tyx, tyy, tyz, tyw, tzx, tzy, tzz, tzw) ==
    [xx |-> txx, xy |-> txy, xz |-> txz, xw |-> txw,
     yx |-> tyx, yy |-> tyy, yz |-> tyz, yw |-> tyw,
     zx |-> tzx, zy |-> tzy, zz |-> tzz, zw |-> tzw]

\* QTensor( xx, yy, zz ): the values along the main diagonal
QTensorDiag(dxx, dyy, dzz) == QTensor(dxx, 0, 0, 0,  0, dyy, 0, 0,  0, 0, dzz, 0)

\* QTensor::Identity
TIdentity == QTensorDiag(One, One, One)

\* SetComponents( 0 )
TZero == QTensorDiag(0, 0, 0)

TNaN == QTensor(NaN, NaN, NaN, NaN, NaN, NaN, NaN, NaN, NaN, NaN, NaN, NaN)

SetColumnVectors(v1, v2, v3) ==
    QTensor(v1.x, v2.x, v3.x, 0,
            v1.y, v2.y, v3.y, 0,
            v1.z, v2.z, v3.z, 0)

\* Shoemake's matrix of the orientation q, with the translation
SetFromOrientationAndPosition(q, translate) ==
    IF QIsNaN(q) \/ QIsNaN(translate) THEN TNaN
    ELSE QTensor(
        One - 2 * (FMul(q.y, q.y) + FMul(q.z, q.z)),
              2 * (FMul(q.x, q.y) - FMul(q.w, q.z)),
              2 * (FMul(q.x, q.z) + FMul(q.w, q.y)),
        translate.x,
              2 * (FMul(q.x, q.y) + FMul(q.w, q.z)),
        One - 2 * (FMul(q.x, q.x) + FMul(q.z, q.z)),
              2 * (FMul(q.y, q.z) - FMul(q.w, q.x)),
        translate.y,
              2 * (FMul(q.x, q.z) - FMul(q.w, q.y)),
              2 * (FMul(q.y, q.z) + FMul(q.w, q.x)),
        One - 2 * (FMul(q.x, q.x) + FMul(q.y, q.y)),
        translate.z)

\* Column( j ): axis j of the transform, column 3 is the position
Column(T, j) ==
    IF j = 0 THEN Quaternion(0, T.xx, T.yx, T.zx)
    ELSE IF j = 1 THEN Quaternion(0, T.xy, T.yy, T.zy)
    ELSE IF j = 2 THEN Quaternion(0, T.xz, T.yz, T.zz)
    ELSE Quaternion(One, T.xw, T.yw, T.zw)

\* operator * ( const Quaternion& ) and operator () ( const Quaternion& )
TApply(T, q) ==
    Quaternion(0,
        FMul(q.x, T.xx) + FMul(q.y, T.xy) + FMul(q.z, T.xz) + T.xw,
        FMul(q.x, T.yx) + FMul(q.y, T.yy) + FMul(q.z, T.yz) + T.yw,
        FMul(q.x, T.zx) + FMul(q.y, T.zy) + FMul(q.z, T.zz) + T.zw)

\* TransformInverse( const Quaternion& )
TransformInverse(T, q) ==
    LET Rotate(del) ==
            Quaternion(0,
                FMul(del.x, T.xx) + FMul(del.y, T.yx) + FMul(del.z, T.zx),
                FMul(del.x, T.xy) + FMul(del.y, T.yy) + FMul(del.z, T.zy),
                FMul(del.x, T.xz) + FMul(del.y, T.yz) + FMul(del.z, T.zz))
    IN  Rotate(QSub(q, Quaternion(0, T.xw, T.yw, T.zw)))

\* operator () ( const QTensor& ): (*this) * T * Transpose(), no translation;
\* Rows(A, B) is the sum over k of A.ik * B.jk
TSimilarity(M, T) ==
    LET Rows(A, B) ==
            QTensor(
                FMul(A.xx, B.xx) + FMul(A.xy, B.xy) + FMul(A.xz, B.xz),
                FMul(A.xx, B.yx) + FMul(A.xy, B.yy) + FMul(A.xz, B.yz),
                FMul(A.xx, B.zx) + FMul(A.xy, B.zy) + FMul(A.xz, B.zz),
                0,
                FMul(A.yx, B.xx) + FMul(A.yy, B.xy) + FMul(A.yz, B.xz),
                FMul(A.yx, B.yx) + FMul(A.yy, B.yy) + FMul(A.yz, B.yz),
                FMul(A.yx, B.zx) + FMul(A.yy, B.zy) + FMul(A.yz, B.zz),
                0,
                FMul(A.zx, B.xx) + FMul(A.zy, B.xy) + FMul(A.zz, B.xz),
                FMul(A.zx, B.yx) + FMul(A.zy, B.yy) + FMul(A.zz, B.yz),
                FMul(A.zx, B.zx) + FMul(A.zy, B.zy) + FMul(A.zz, B.zz),
                0)
        Columns(A) ==
            QTensor(A.xx, A.yx, A.zx, 0,
                    A.xy, A.yy, A.zy, 0,
                    A.xz, A.yz, A.zz, 0)
    IN  IF M.xx = NaN THEN TNaN ELSE Rows(Rows(M, Columns(T)), M)

Determinant(T) ==
      0 - FMul(FMul(T.zx, T.yy), T.xz)
        + FMul(FMul(T.yx, T.zy), T.xz)
        + FMul(FMul(T.zx, T.xy), T.yz)
        - FMul(FMul(T.xx, T.zy), T.yz)
        - FMul(FMul(T.yx, T.xy), T.zz)
        + FMul(FMul(T.xx, T.yy), T.zz)

\* SetInverseOf( T ): the cofactors of T over its determinant; the zero tensor
\* when the determinant is zero
SetInverseOf(T) ==
    LET Cofactors(det_T) ==
            QTensor(
                FDiv(FMul(T.yy, T.zz) - FMul(T.zy, T.yz), det_T),
                FDiv(FMul(T.zy, T.xz) - FMul(T.xy, T.zz), det_T),
                FDiv(FMul(T.xy, T.yz) - FMul(T.yy, T.xz), det_T),
                FDiv(  FMul(FMul(T.zy, T.yz), T.xw) - FMul(FMul(T.yy, T.zz), T.xw)
                     - FMul(FMul(T.zy, T.xz), T.yw) + FMul(FMul(T.xy, T.zz), T.yw)
                     + FMul(FMul(T.yy, T.xz), T.zw) - FMul(FMul(T.xy, T.yz), T.zw), det_T),
                FDiv(FMul(T.zx, T.yz) - FMul(T.yx, T.zz), det_T),
                FDiv(FMul(T.xx, T.zz) - FMul(T.zx, T.xz), det_T),
                FDiv(FMul(T.yx, T.xz) - FMul(T.xx, T.yz), det_T),
                FDiv(  FMul(FMul(T.zx, T.xz), T.yw) - FMul(FMul(T.zx, T.yz), T.xw)
                     + FMul(FMul(T.yx, T.zz), T.xw) - FMul(FMul(T.xx, T.zz), T.yw)
                     - FMul(FMul(T.yx, T.xz), T.zw) + FMul(FMul(T.xx, T.yz), T.zw), det_T),
                FDiv(FMul(T.yx, T.zy) - FMul(T.zx, T.yy), det_T),
                FDiv(FMul(T.zx, T.xy) - FMul(T.xx, T.zy), det_T),
                FDiv(FMul(T.xx, T.yy) - FMul(T.yx, T.xy), det_T),
                FDiv(  FMul(FMul(T.zx, T.yy), T.xw) - FMul(FMul(T.yx, T.zy), T.xw)
                     - FMul(FMul(T.zx, T.xy), T.yw) + FMul(FMul(T.xx, T.zy), T.yw)
                     + FMul(FMul(T.yx, T.xy), T.zw) - FMul(FMul(T.xx, T.yy), T.zw), det_T))
    IN  IF Determinant(T) = 0 THEN TZero ELSE Cofactors(Determinant(T))

\* ---------------------------------------------------------------------------
\* RigidBody
\* ---------------------------------------------------------------------------

\* The double 1e+30 of SetupMass and Mass: the mass from which on a body is
\* immovable, and the inverse mass of a body of mass zero.  It lies beyond the
\* number range of the model, which takes the real 100 in its place; the
\* finite masses and inverse masses of the model are below it.
InfiniteMass == 100 * One

\* The step lengths h the model passes to SolveODE: 0.1, 0.5 and 1.
TimeSteps == {One \div 10, One \div 2, One}

\* pow( 0.5, h ) for the step lengths of the model
PowHalf(hh) == IF hh = One THEN 500 ELSE IF hh = One \div 2 THEN 707 ELSE 933

\* pow( angularDamping, timeStep ), angularDamping = 0.998
PowAngularDamping(hh) == IF hh = One THEN 998 ELSE 999

\* RigidBody (): the body as constructed
RigidBody ==
    [ InverseMass            |-> 0,
      InverseInertiaBody     |-> TZero,
      Position               |-> QZero,
      Orientation            |-> QZero,
      LinearMomentum         |-> QZero,
      AngularMomentum        |-> QZero,
      ToWorld                |-> TIdentity,
      InverseInertiaWorld    |-> TZero,
      Velocity               |-> QZero,
      AngularVelocity        |-> QZero,
      TotalAngularMomentum   |-> QZero,
      KineticEnergy          |-> 0,
      PotentialEnergy        |-> 0,
      AverageKineticEnergy   |-> 0,
      KineticEnergyThreshold |-> 0,
      KineticEnergyDamping   |-> FALSE,
      Force                  |-> QZero,
      Torque                 |-> QZero,
      IsActive               |-> FALSE,
      CanBeDeactivated       |-> FALSE ]

Mass(b) ==
    IF b.InverseMass = 0 THEN InfiniteMass
    ELSE IF b.InverseMass >= InfiniteMass THEN 0
    ELSE FDiv(One, b.InverseMass)

IsFiniteMass(b) == b.InverseMass > 0

\* A setter that takes no mass for the infinite one and the infinite one for
\* none
SetupMassSwapped(b, mass) ==
    [b EXCEPT !.InverseMass = IF mass = 0 THEN 0
                              ELSE IF mass >= InfiniteMass THEN InfiniteMass
                              ELSE FDiv(One, mass),
              !.KineticEnergyThreshold = FMul(300, mass)]

SetupMass(b, mass) ==
    [b EXCEPT !.InverseMass = IF mass = 0 THEN InfiniteMass
                              ELSE IF mass >= InfiniteMass THEN 0
                              ELSE FDiv(One, mass),
              !.KineticEnergyThreshold = FMul(300, mass)]

SetMomentOfInertia(b, I_body) == [b EXCEPT !.InverseInertiaBody = SetInverseOf(I_body)]

\* A body whose position or orientation is not finite
BodyIsNaN(b) == QIsNaN(b.Position) \/ QIsNaN(b.Orientation)

\* A body whose momenta are not finite
MomentumIsNaN(b) == QIsNaN(b.LinearMomentum) \/ QIsNaN(b.AngularMomentum)

\* CalculateDerivedQuantities( fromMomenta ): normalizes the orientation and
\* derives the transform, the world inertia, the velocities (or the momenta),
\* the total angular momentum and the kinetic energy.  What is derived from a
\* position, an orientation or a momentum that is not finite is not finite
\* either.
CalculateDerivedQuantities(b, fromMomenta) ==
    LET Energies(d) ==
            [d EXCEPT !.TotalAngularMomentum =
                          QAdd(Cross(d.Position, d.LinearMomentum), d.AngularMomentum),
                      !.KineticEnergy = FMul(500, Dot(d.Velocity, d.LinearMomentum))
                                      + FMul(500, Dot(d.AngularVelocity, d.AngularMomentum))]
        Velocities(d) ==
            Energies(IF fromMomenta
                     THEN [d EXCEPT
                             !.Velocity = QScale(d.LinearMomentum, d.InverseMass),
                             !.AngularVelocity =
                                 TApply(d.InverseInertiaWorld, d.AngularMomentum)]
                     ELSE [d EXCEPT
                             !.LinearMomentum = QScale(d.Velocity, Mass(d)),
                             !.AngularMomentum =
                                 TApply(SetInverseOf(d.InverseInertiaWorld),
                                        d.AngularVelocity)])
        NotFinite(d) ==
            [d EXCEPT !.Velocity = QNaN,
                      !.AngularVelocity = QNaN,
                      !.TotalAngularMomentum = QNaN,
                      !.KineticEnergy = NaN]
        Derived(d) == IF MomentumIsNaN(d) THEN NotFinite(d) ELSE Velocities(d)
        Inertia(T) ==
            Derived([b EXCEPT !.ToWorld = T,
                              !.InverseInertiaWorld = TSimilarity(T, b.InverseInertiaBody)])
        Transform(Q) ==
            [Inertia(SetFromOrientationAndPosition(Q, b.Position)) EXCEPT !.Orientation = Q]
    IN  IF BodyIsNaN(b)
        THEN [b EXCEPT !.Orientation = QNaN,
                       !.ToWorld = TNaN,
                       !.InverseInertiaWorld = TNaN,
                       !.Velocity = IF QIsNaN(b.LinearMomentum) THEN QNaN
                                    ELSE QScale(b.LinearMomentum, b.InverseMass),
                       !.AngularVelocity = QNaN,
                       !.TotalAngularMomentum = QNaN,
                       !.KineticEnergy = NaN]
        ELSE Transform(Normalize(b.Orientation, One))

\* DampMomentum( timeStep ): linearDamping = 0 leaves the linear momentum alone
DampMomentum(b, timeStep) ==
    [b EXCEPT !.AngularMomentum = QScale(b.AngularMomentum, PowAngularDamping(timeStep))]

Activate(b) ==
    IF ~ b.IsActive
    THEN [b EXCEPT !.IsActive = TRUE,
                   !.AverageKineticEnergy = FMul(2 * 300, Mass(b))]
    ELSE b

\* A deactivation that keeps the momenta of the body
DeactivateKeepingMomenta(b) ==
    [b EXCEPT !.IsActive = FALSE,
              !.Velocity = QZero,
              !.AngularVelocity = QZero,
              !.KineticEnergy = 0,
              !.Force = QZero,
              !.Torque = QZero]

Deactivate(b) ==
    [b EXCEPT !.IsActive = FALSE,
              !.LinearMomentum = QZero,
              !.AngularMomentum = QZero,
              !.TotalAngularMomentum = QZero,
              !.Velocity = QZero,
              !.AngularVelocity = QZero,
              !.KineticEnergy = 0,
              !.Force = QZero,
              !.Torque = QZero]

SetCanBeDeactivated(b, flag) ==
    LET c == [b EXCEPT !.CanBeDeactivated = flag]
    IN  IF ~ flag /\ ~ b.IsActive THEN Activate(c) ELSE c

ClearAccumulators(b) ==
    [b EXCEPT !.Force = QZero, !.Torque = QZero, !.PotentialEnergy = 0]

\* An external force that activates the body, as an internal one does
AddExternalForceWaking(b, force, potentialEnergy) ==
    [b EXCEPT !.Force = QAdd(b.Force, force),
              !.PotentialEnergy = b.PotentialEnergy + potentialEnergy,
              !.IsActive = TRUE]

AddExternalForce(b, force, potentialEnergy) ==
    [b EXCEPT !.Force = QAdd(b.Force, force),
              !.PotentialEnergy = b.PotentialEnergy + potentialEnergy]

AddForce(b, force, potentialEnergy) ==
    [b EXCEPT !.Force = QAdd(b.Force, force),
              !.PotentialEnergy = b.PotentialEnergy + potentialEnergy,
              !.IsActive = TRUE]

AddForceAtPoint(b, worldPoint, force, potentialEnergy) ==
    [b EXCEPT !.Force = QAdd(b.Force, force),
              !.Torque = QAdd(b.Torque, Cross(QSub(worldPoint, b.Position), force)),
              !.PotentialEnergy = b.PotentialEnergy + potentialEnergy,
              !.IsActive = TRUE]

AddTorque(b, torque) ==
    [b EXCEPT !.Torque = QAdd(b.Torque, torque), !.IsActive = TRUE]

Set_XQVW(b, X, Q, V, W) ==
    CalculateDerivedQuantities(
        [b EXCEPT !.Position = X, !.Orientation = Q,
                  !.Velocity = V, !.AngularVelocity = W], FALSE)

\* RigidBody::SolveODE( h ): the semi-implicit Euler step of one body
\* A step that damps the momenta of the body, whether damping is enabled or not
DampingSolveODE(b, hh) ==
    IF ~ b.IsActive THEN b ELSE CalculateDerivedQuantities(DampMomentum(b, hh), TRUE)

\* An explicit Euler step: the position moves by the velocity the body had
\* before the step
ExplicitSolveODE(b, hh) ==
    IF ~ b.IsActive THEN b
    ELSE CalculateDerivedQuantities(
             [b EXCEPT !.Position = QAdd(b.Position, QScale(b.Velocity, hh)),
                       !.LinearMomentum = QAdd(b.LinearMomentum, QScale(b.Force, hh)),
                       !.AngularMomentum = QAdd(b.AngularMomentum, QScale(b.Torque, hh))],
             TRUE)

\* A step that puts to rest every body whose average kinetic energy is below
\* the threshold, whether it may be deactivated or not
RestingSolveODE(b, hh) ==
    LET Rest(d, avg) ==
            IF avg < d.KineticEnergyThreshold
            THEN Deactivate([d EXCEPT !.AverageKineticEnergy = avg])
            ELSE d
        Average(d) ==
            Rest(d, FMul(PowHalf(hh), d.AverageKineticEnergy)
                    + FMul(One - PowHalf(hh), d.KineticEnergy))
    IN  IF ~ b.IsActive THEN b
        ELSE Average(CalculateDerivedQuantities(
                 [b EXCEPT !.LinearMomentum = QAdd(b.LinearMomentum, QScale(b.Force, hh)),
                           !.AngularMomentum = QAdd(b.AngularMomentum, QScale(b.Torque, hh))],
                 TRUE))

BodySolveODE(b, hh) ==
    LET Rest(d, avg) ==
            IF ~ d.CanBeDeactivated THEN d
            ELSE IF avg < d.KineticEnergyThreshold
                 THEN Deactivate([d EXCEPT !.AverageKineticEnergy = avg])
            ELSE IF avg > 10 * d.KineticEnergyThreshold
                 THEN [d EXCEPT !.AverageKineticEnergy = 10 * d.KineticEnergyThreshold]
            ELSE [d EXCEPT !.AverageKineticEnergy = avg]
        Average(d) ==
            Rest(d, FMul(PowHalf(hh), d.AverageKineticEnergy)
                    + FMul(One - PowHalf(hh), d.KineticEnergy))
        Positions(d) ==
            Average(CalculateDerivedQuantities(
                [d EXCEPT !.Position = QAdd(d.Position, QScale(d.Velocity, hh)),
                          !.Orientation =
                              QAdd(d.Orientation,
                                   QScale(QMul(QScale(d.AngularVelocity, 500), d.Orientation),
                                          hh))],
                TRUE))
        Velocities(d) ==
            Positions([d EXCEPT
                !.Velocity = QScale(d.LinearMomentum, d.InverseMass),
                !.AngularVelocity = TApply(d.InverseInertiaWorld, d.AngularMomentum)])
        Damping(d) ==
            Velocities(IF d.KineticEnergyDamping THEN DampMomentum(d, hh) ELSE d)
    IN  IF ~ b.IsActive THEN b
        ELSE Damping([b EXCEPT
                !.LinearMomentum = QAdd(b.LinearMomentum, QScale(b.Force, hh)),
                !.AngularMomentum = QAdd(b.AngularMomentum, QScale(b.Torque, hh))])

\* ---------------------------------------------------------------------------
\* Collision and CollisionResolver: the contact registry
\* ---------------------------------------------------------------------------

\* A slot of the registry that no contact was written to yet.  Body 0 is the
\* null pointer.
Collision ==
    [ Body_A           |-> 0,
      Body_B           |-> 0,
      Position         |-> QZero,
      Normal           |-> QZero,
      Penetration      |-> 0,
      Restitution      |-> 0,
      Friction         |-> 0,
      ToWorld          |-> TZero,
      Velocity         |-> QZero,
      BouncingVelocity |-> 0,
      RelativePosition |-> <<QZero, QZero>> ]

\* CollisionResolver( allocationArea, length ).  NextFree is the offset of the
\* next free slot in Collisions.  Returned is a history variable, not program
\* state: the values returned by the calls of RegisterNewContact since the
\* registry was last cleared.  Found is a history variable too: the search a
\* caller made last, its eps and the contact it returned, 0 for the null
\* pointer.
CollisionResolver(length) ==
    [ MaxCollisionCount |-> length,
      Collisions        |-> [k \in 1..length |-> Collision],
      NextFree          |-> 0,
      FreeCount         |-> length,
      CollisionCount    |-> 0,
      Restitution       |-> One,
      Relaxation        |-> One \div 5,
      Friction          |-> 0,
      Returned          |-> << >>,
      Found             |-> [search |-> "none", eps |-> 0, contact |-> 0] ]

Count(owner) == owner.CollisionCount

HasSpaceForMoreContacts(owner) == owner.FreeCount > 0

\* A clearing that gives the slots of the registry back but keeps the count
\* of the contacts
InitializeKeepingCount(owner) ==
    [owner EXCEPT !.NextFree = 0,
                  !.FreeCount = owner.MaxCollisionCount,
                  !.Returned = << >>]

\* CollisionResolver::Initialize (): clears the registry
Initialize(owner) ==
    [owner EXCEPT !.NextFree = 0,
                  !.FreeCount = owner.MaxCollisionCount,
                  !.CollisionCount = 0,
                  !.Returned = << >>]

\* A registration that reports success and writes the contact but leaves the
\* count of the registry alone
RegisterUncounted(owner, body_A, body_B, position, normal, penetration) ==
    IF owner.FreeCount <= 0
    THEN [owner EXCEPT !.Returned = Append(@, 0)]
    ELSE [owner EXCEPT
            !.Collisions[owner.NextFree + 1] =
                [@ EXCEPT !.Body_A = body_A, !.Body_B = body_B, !.Position = position,
                          !.Normal = normal, !.Penetration = penetration],
            !.NextFree = @ + 1,
            !.FreeCount = @ - 1,
            !.Returned = Append(@, 1)]

\* A registration that, on a full registry, reports failure but writes the
\* contact over the last slot
RegisterOverwriting(owner, body_A, body_B, position, normal, penetration) ==
    [owner EXCEPT
        !.Collisions[IF owner.FreeCount <= 0 THEN owner.MaxCollisionCount
                     ELSE owner.NextFree + 1] =
            [@ EXCEPT !.Body_A = body_A, !.Body_B = body_B, !.Position = position,
                      !.Normal = normal, !.Penetration = penetration,
                      !.Friction = owner.Friction, !.Restitution = owner.Restitution],
        !.NextFree = IF owner.FreeCount <= 0 THEN @ ELSE @ + 1,
        !.FreeCount = IF owner.FreeCount <= 0 THEN @ ELSE @ - 1,
        !.CollisionCount = IF owner.FreeCount <= 0 THEN @ ELSE @ + 1,
        !.Returned = Append(@, IF owner.FreeCount <= 0 THEN 0 ELSE 1)]

\* CollisionResolver::RegisterNewContact(): 1 if ok, 0 if there is no space;
\* the return value is the last element of Returned
RegisterNewContact(owner, body_A, body_B, position, normal, penetration) ==
    IF owner.FreeCount <= 0
    THEN [owner EXCEPT !.Returned = Append(@, 0)]
    ELSE [owner EXCEPT
            !.Collisions[owner.NextFree + 1] =
                [@ EXCEPT !.Body_A = body_A,
                          !.Body_B = body_B,
                          !.Position = position,
                          !.Normal = normal,
                          !.Penetration = penetration,
                          !.Friction = owner.Friction,
                          !.Restitution = owner.Restitution],
            !.NextFree = @ + 1,
            !.FreeCount = @ - 1,
            !.CollisionCount = @ + 1,
            !.Returned = Append(@, 1)]

\* ---------------------------------------------------------------------------
\* Geometry and collision detection
\* ---------------------------------------------------------------------------

\* A geometry: its class, the number of its rigid body (0 for scenery) and the
\* payload of its class.
Geometry(class, body, radius, halfExtent, direction, offset) ==
    [ Class |-> class, Body |-> body, Radius |-> radius,
      HalfExtent |-> halfExtent, Direction |-> direction, Offset |-> offset ]

Sphere(body, radius) == Geometry("Sphere", body, radius, QZero, QZero, 0)

Cuboid(body, halfExtent) == Geometry("Cuboid", body, 0, halfExtent, QZero, 0)

HalfSpace(direction, offset) == Geometry("HalfSpace", 0, 0, QZero, direction, offset)

TruePlane(direction, offset) == Geometry("TruePlane", 0, 0, QZero, direction, offset)

\* Geometry::Position (): column 3 of the body's transform
Position(bodies, g) == IF g.Body # 0 THEN Column(bodies[g.Body].ToWorld, 3) ELSE QScalar(0)

\* Geometry::Axis( index )
Axis(bodies, g, index) ==
    IF g.Body # 0 THEN Column(bodies[g.Body].ToWorld, index) ELSE QScalar(0)

\* A check that takes a sphere that touches the half-space for one that has
\* sunk into it
CheckSphereTouchingHalfSpace(owner, bodies, g, plane) ==
    IF ~ HasSpaceForMoreContacts(owner) THEN owner
    ELSE
    LET position == Position(bodies, g)
        distance == Dot(plane.Direction, position) - g.Radius - plane.Offset
    IN  IF distance > 0 THEN owner
        ELSE RegisterNewContact(owner, g.Body, 0,
                 QSub(position, QScale(plane.Direction, distance + g.Radius)),
                 plane.Direction,
                 0 - distance)

\* Sphere::Check( owner, const HalfSpace& )
CheckSphereHalfSpace(owner, bodies, g, plane) ==
    IF ~ HasSpaceForMoreContacts(owner) THEN owner
    ELSE
    LET position == Position(bodies, g)
        distance == Dot(plane.Direction, position) - g.Radius - plane.Offset
    IN  IF distance >= 0 THEN owner
        ELSE RegisterNewContact(owner, g.Body, 0,
                 QSub(position, QScale(plane.Direction, distance + g.Radius)),
                 plane.Direction,
                 0 - distance)

\* Sphere::Check( owner, const TruePlane& )
CheckSphereTruePlane(owner, bodies, g, plane) ==
    IF ~ HasSpaceForMoreContacts(owner) THEN owner
    ELSE
    LET position == Position(bodies, g)
        distance == Dot(plane.Direction, position) - plane.Offset
    IN  IF FMul(distance, distance) > FMul(g.Radius, g.Radius) THEN owner
        ELSE RegisterNewContact(owner, g.Body, 0,
                 QSub(position, QScale(plane.Direction, distance)),
                 IF distance < 0 THEN QNeg(plane.Direction) ELSE plane.Direction,
                 (IF distance < 0 THEN distance ELSE 0 - distance) + g.Radius)

\* A check of two spheres whose normal runs from the first sphere to the
\* second
CheckSphereSphereOutward(owner, bodies, g, B) ==
    IF ~ HasSpaceForMoreContacts(owner) THEN owner
    ELSE
    LET position_A == Position(bodies, g)
        position_B == Position(bodies, B)
        displacement == QSub(position_A, position_B)
        distance == ImNorm(displacement)
    IN  IF distance >= g.Radius + B.Radius THEN owner
        ELSE RegisterNewContact(owner, g.Body, B.Body,
                 QAdd(position_B, QScale(displacement, One \div 2)),
                 IF distance = 0 THEN QNaN
                 ELSE QScale(displacement, FDiv(0 - One, distance)),
                 g.Radius + B.Radius - distance)

\* Sphere::Check( owner, const Sphere& ): the normal is displacement / distance,
\* not finite when the centres coincide
CheckSphereSphere(owner, bodies, g, B) ==
    IF ~ HasSpaceForMoreContacts(owner) THEN owner
    ELSE
    LET position_A == Position(bodies, g)
        position_B == Position(bodies, B)
        displacement == QSub(position_A, position_B)
        distance == ImNorm(displacement)
    IN  IF distance >= g.Radius + B.Radius THEN owner
        ELSE RegisterNewContact(owner, g.Body, B.Body,
                 QAdd(position_B, QScale(displacement, One \div 2)),
                 IF distance = 0 THEN QNaN
                 ELSE QScale(displacement, FDiv(One, distance)),
                 g.Radius + B.Radius - distance)

\* Cuboid::ProjectOn( vector )
ProjectOn(bodies, g, vector) ==
      FMul(g.HalfExtent.x, Abs(Dot(vector, Axis(bodies, g, 0))))
    + FMul(g.HalfExtent.y, Abs(Dot(vector, Axis(bodies, g, 1))))
    + FMul(g.HalfExtent.z, Abs(Dot(vector, Axis(bodies, g, 2))))

\* Cuboid::Intersects( const HalfSpace& )
IntersectsHalfSpace(bodies, g, plane) ==
    Dot(plane.Direction, Position(bodies, g)) - ProjectOn(bodies, g, plane.Direction)
        <= plane.Offset

\* static const double vertices[8][3]
vertices ==
    << <<1, 1, 1>>, <<-1, 1, 1>>, <<1, -1, 1>>, <<-1, -1, 1>>,
       <<1, 1, -1>>, <<-1, 1, -1>>, <<1, -1, -1>>, <<-1, -1, -1>> >>

\* The vertex loop of Cuboid::Check( owner, const HalfSpace& ), from vertex i on
RECURSIVE CheckVertices(_, _, _, _, _)
CheckVertices(owner, bodies, g, plane, i) ==
    IF ~ (i < 8 /\ HasSpaceForMoreContacts(owner)) THEN owner
    ELSE
    LET vertexPos == TApply(bodies[g.Body].ToWorld,
                        ComponentWiseProduct(
                            Quaternion(0, vertices[i + 1][1] * One,
                                          vertices[i + 1][2] * One,
                                          vertices[i + 1][3] * One),
                            g.HalfExtent))
        penetration == plane.Offset - Dot(vertexPos, plane.Direction)
    IN  CheckVertices(
            IF penetration >= 0
            THEN RegisterNewContact(owner, g.Body, 0,
                     QAdd(vertexPos, QScale(plane.Direction, FMul(One \div 2, penetration))),
                     plane.Direction,
                     penetration)
            ELSE owner,
            bodies, g, plane, i + 1)

\* Cuboid::Check( owner, const HalfSpace& )
CheckCuboidHalfSpace(owner, bodies, g, plane) ==
    IF ~ HasSpaceForMoreContacts(owner) THEN owner
    ELSE IF ~ IntersectsHalfSpace(bodies, g, plane) THEN owner
    ELSE
    LET axis_n == [i \in 0..2 |-> Dot(Axis(bodies, g, i), plane.Direction)]
        parallel(i) == Abs(axis_n[i]) < 1   \* fabs( axis_n[i] ) < 1e-4
        parallelCount == Cardinality({i \in 0..2 : parallel(i)})
        coord(i) == IF parallel(i) THEN 0
                    ELSE IF axis_n[i] < 0 THEN QIndex(g.HalfExtent, i)
                    ELSE 0 - QIndex(g.HalfExtent, i)
        contactPoint == TApply(bodies[g.Body].ToWorld,
                               Quaternion(0, coord(0), coord(1), coord(2)))
        penetration == plane.Offset - Dot(contactPoint, plane.Direction)
    IN  IF parallelCount > 0
        THEN RegisterNewContact(owner, g.Body, 0,
                 QAdd(contactPoint, QScale(plane.Direction, FMul(One \div 2, penetration))),
                 plane.Direction,
                 penetration)
        ELSE CheckVertices(owner, bodies, g, plane, 0)

\* Cuboid::Clamp( x, max )
Clamp(x, max) == IF x > max THEN max ELSE IF x < 0 - max THEN 0 - max ELSE x

\* Cuboid::Check( owner, const Sphere& )
CheckCuboidSphere(owner, bodies, g, B) ==
    LET center == Position(bodies, B)
        relCenter == TransformInverse(bodies[g.Body].ToWorld, center)
        closestPoint == Quaternion(0,
                            Clamp(relCenter.x, g.HalfExtent.x),
                            Clamp(relCenter.y, g.HalfExtent.y),
                            Clamp(relCenter.z, g.HalfExtent.z))
        del == QSub(closestPoint, relCenter)
        closestPointWorld == TApply(bodies[g.Body].ToWorld, closestPoint)
    IN  IF \/ Abs(relCenter.x) - B.Radius > g.HalfExtent.x
           \/ Abs(relCenter.y) - B.Radius > g.HalfExtent.y
           \/ Abs(relCenter.z) - B.Radius > g.HalfExtent.z
        THEN owner
        ELSE IF ImSquaredNorm(del) > FMul(B.Radius, B.Radius) THEN owner
        ELSE RegisterNewContact(owner, g.Body, B.Body,
                 closestPointWorld,
                 Normalize(QSub(closestPointWorld, center), One),
                 B.Radius - ImNorm(del))

\* The sum of the projections of two cuboids on an axis, from which the
\* distance of their centres is not taken
GetExtentOnAxis(bodies, A, B, axis, displacement) ==
      ProjectOn(bodies, A, Normalize(axis, One))
    + ProjectOn(bodies, B, Normalize(axis, One))

\* Cuboid::GetPenetrationOnAxis( B, axis, displacement )
GetPenetrationOnAxis(bodies, A, B, axis, displacement) ==
    LET direction == Normalize(axis, One)
    IN    ProjectOn(bodies, A, direction)
        + ProjectOn(bodies, B, direction)
        - Abs(Dot(displacement, direction))

\* Cuboid::FindContactPointOnEdges( ptOn_A, axis_A, edge_A, ptOn_B, axis_B,
\* edge_B, use_A )
FindContactPointOnEdges(ptOn_A, axis_A, edge_A, ptOn_B, axis_B, edge_B, use_A) ==
    LET sqNorm_dA == ImSquaredNorm(axis_A)
        sqNorm_dB == ImSquaredNorm(axis_B)
        axis_AB == Dot(axis_B, axis_A)
        p_AB == QSub(ptOn_A, ptOn_B)
        dpSta_A == Dot(p_AB, axis_A)
        dpSta_B == Dot(p_AB, axis_B)
        denominator == FMul(sqNorm_dA, sqNorm_dB) - FMul(axis_AB, axis_AB)
        mu_A == FDiv(FMul(axis_AB, dpSta_B) - FMul(sqNorm_dB, dpSta_A), denominator)
        mu_B == FDiv(FMul(sqNorm_dA, dpSta_B) - FMul(axis_AB, dpSta_A), denominator)
    IN  IF Abs(denominator) < 1   \* fabs( denominator ) < 1e-4
        THEN IF use_A THEN ptOn_A ELSE ptOn_B
        ELSE IF mu_A > edge_A \/ mu_A < 0 - edge_A \/ mu_B > edge_B \/ mu_B < 0 - edge_B
        THEN IF use_A THEN ptOn_A ELSE ptOn_B
        ELSE QAdd(QScale(QAdd(ptOn_A, QScale(axis_A, mu_A)), One \div 2),
                  QScale(QAdd(ptOn_B, QScale(axis_B, mu_B)), One \div 2))

\* Cuboid::RegisterContactOnAxis( owner, B, displacement, axis, penetration ),
\* called on the cuboid A
RegisterContactOnAxis(owner, bodies, A, B, displacement, axis, penetration) ==
    LET normal == IF Dot(axis, displacement) > 0 THEN QNeg(axis) ELSE axis
        axis_Bn == [i \in 0..2 |-> Dot(Axis(bodies, B, i), normal)]
        distance_BA(i) == 0 - Dot(displacement, Axis(bodies, B, i))
        halfExtent_A(i) == ProjectOn(bodies, A, Axis(bodies, B, i))
        halfExtent_B(i) == QIndex(B.HalfExtent, i)
        vxL(i) == IF distance_BA(i) - halfExtent_A(i) > 0 - halfExtent_B(i)
                  THEN distance_BA(i) - halfExtent_A(i) ELSE 0 - halfExtent_B(i)
        vxR(i) == IF distance_BA(i) + halfExtent_A(i) < halfExtent_B(i)
                  THEN distance_BA(i) + halfExtent_A(i) ELSE halfExtent_B(i)
        vxM(i) == FMul(One \div 2, vxL(i) + vxR(i))
        contactPointOn_B ==
            [i \in 0..2 |->
                IF Abs(axis_Bn[i]) < 1   \* fabs( axis_Bn[i] ) < 1e-4
                THEN IF Abs(vxM(i)) < 1 THEN 0 ELSE vxM(i)
                ELSE IF axis_Bn[i] > 0 THEN halfExtent_B(i) ELSE 0 - halfExtent_B(i)]
    IN  RegisterNewContact(owner, A.Body, B.Body,
            TApply(bodies[B.Body].ToWorld,
                   Quaternion(0, contactPointOn_B[0], contactPointOn_B[1],
                                 contactPointOn_B[2])),
            normal,
            penetration)

\* Const::Max, the smallest penetration before an axis is checked
ConstMax == 2000000000

\* The axis that the k-th of the 15 checks of Cuboid::Check( owner, const
\* Cuboid& ) is made on: an axis of A, an axis of B or the cross product of one
\* of each
SeparatingAxis(bodies, A, B, k) ==
    IF k <= 3 THEN Axis(bodies, A, k - 1)
    ELSE IF k <= 6 THEN Axis(bodies, B, k - 4)
    ELSE Cross(Axis(bodies, A, (k - 7) \div 3), Axis(bodies, B, (k - 7) % 3))

\* Cuboid::CheckOverlapOnAxis, for each of the 15 checks: the penetration it
\* compares with the smallest one; an axis that is skipped (ImSquaredNorm ()
\* < 1e-4) leaves the smallest one as it is, as Const::Max would
CheckOverlapOnAxis(bodies, A, B, displacement) ==
    [k \in 1..15 |->
        IF ImSquaredNorm(SeparatingAxis(bodies, A, B, k)) < 1 THEN ConstMax
        ELSE GetPenetrationOnAxis(bodies, A, B, SeparatingAxis(bodies, A, B, k),
                                  displacement)]

\* The check that has set the smallest penetration and the tags when n checks
\* are made: a penetration replaces the smallest one only if it is smaller
SmallestPenetration(penetration, n) ==
    CHOOSE k \in 1..n :
        \A j \in 1..n :
            \/ penetration[k] < penetration[j]
            \/ penetration[k] = penetration[j] /\ k <= j

\* The edge-edge contact of Cuboid::Check( owner, const Cuboid& )
RegisterContactOnEdges(owner, bodies, A, B, normal, axisIndex_A, axisIndex_B, use_A, penetration) ==
    LET ptOn_Edge_A ==
            [i \in 0..2 |->
                \* fabs( axis_An ) > 1e-4
                IF i # axisIndex_A /\ Abs(Dot(Axis(bodies, A, i), normal)) >= 1
                THEN IF Dot(Axis(bodies, A, i), normal) > 0
                     THEN 0 - QIndex(A.HalfExtent, i) ELSE QIndex(A.HalfExtent, i)
                ELSE 0]
        ptOn_Edge_B ==
            [i \in 0..2 |->
                IF i # axisIndex_B /\ Abs(Dot(Axis(bodies, B, i), normal)) >= 1
                THEN IF Dot(Axis(bodies, B, i), normal) > 0
                     THEN QIndex(B.HalfExtent, i) ELSE 0 - QIndex(B.HalfExtent, i)
                ELSE 0]
    IN  RegisterNewContact(owner, A.Body, B.Body,
            FindContactPointOnEdges(
                TApply(bodies[A.Body].ToWorld,
                       Quaternion(0, ptOn_Edge_A[0], ptOn_Edge_A[1], ptOn_Edge_A[2])),
                Axis(bodies, A, axisIndex_A), QIndex(A.HalfExtent, axisIndex_A),
                TApply(bodies[B.Body].ToWorld,
                       Quaternion(0, ptOn_Edge_B[0], ptOn_Edge_B[1], ptOn_Edge_B[2])),
                Axis(bodies, B, axisIndex_B), QIndex(B.HalfExtent, axisIndex_B),
                use_A),
            normal,
            penetration)

\* Cuboid::Check( owner, const Cuboid& ).  The checks are numbered 1 to 15 in
\* the order made: k - 1 is the tag of an axis of A for k <= 3, k - 4 that of
\* an axis of B for k <= 6, and (k - 7) / 3 and (k - 7) % 3 are the tags of a
\* cross product.  use_A is set when the first six checks are made.
CheckCuboidCuboid(owner, bodies, A, B) ==
    LET Normal(unit, displacement) ==
            IF Dot(unit, displacement) > 0 THEN QNeg(unit) ELSE unit
        Contact(displacement, penetration, k, use_A) ==
            IF \E j \in 1..15 : penetration[j] < 0 THEN owner
            ELSE IF k <= 3
            THEN RegisterContactOnAxis(owner, bodies, A, B, displacement,
                                       Axis(bodies, A, k - 1), penetration[k])
            ELSE IF k <= 6
            THEN RegisterContactOnAxis(owner, bodies, B, A, QNeg(displacement),
                                       Axis(bodies, B, k - 4), penetration[k])
            ELSE RegisterContactOnEdges(owner, bodies, A, B,
                     Normal(Normalize(SeparatingAxis(bodies, A, B, k), One), displacement),
                     (k - 7) \div 3, (k - 7) % 3, use_A, penetration[k])
        Checked(displacement, penetration) ==
            Contact(displacement, penetration,
                    SmallestPenetration(penetration, 15),
                    SmallestPenetration(penetration, 6) > 3)
        Displaced(displacement) ==
            Checked(displacement, CheckOverlapOnAxis(bodies, A, B, displacement))
    IN  Displaced(QSub(Position(bodies, B), Position(bodies, A)))

\* Geometry::Detect( owner, B )
Detect(owner, bodies, A, B) ==
    IF ~ HasSpaceForMoreContacts(owner) THEN owner
    ELSE IF A.Class = "Sphere" THEN
        IF B.Class = "Sphere" THEN CheckSphereSphere(owner, bodies, A, B)
        ELSE IF B.Class = "Cuboid" THEN CheckCuboidSphere(owner, bodies, B, A)
        ELSE IF B.Class = "HalfSpace" THEN CheckSphereHalfSpace(owner, bodies, A, B)
        ELSE CheckSphereTruePlane(owner, bodies, A, B)
    ELSE IF A.Class = "Cuboid" THEN
        IF B.Class = "Sphere" THEN CheckCuboidSphere(owner, bodies, A, B)
        ELSE IF B.Class = "Cuboid" THEN CheckCuboidCuboid(owner, bodies, A, B)
        ELSE IF B.Class = "HalfSpace" THEN CheckCuboidHalfSpace(owner, bodies, A, B)
        ELSE owner
    ELSE IF A.Class = "HalfSpace" THEN
        IF B.Class = "Sphere" THEN CheckSphereHalfSpace(owner, bodies, B, A)
        ELSE IF B.Class = "Cuboid" THEN CheckCuboidHalfSpace(owner, bodies, B, A)
        ELSE owner
    ELSE
        IF B.Class = "Sphere" THEN CheckSphereTruePlane(owner, bodies, B, A)
        ELSE owner

\* ---------------------------------------------------------------------------
\* Collision: derived quantities of a contact
\* ---------------------------------------------------------------------------

\* The two body pointers of a contact as the array &Body_A
BodyOf(c, a) == IF a = 0 THEN c.Body_A ELSE c.Body_B

\* An activation that wakes every body of the contact
ActivateBodies(c, bodies) ==
    IF c.Body_B # 0
    THEN [bodies EXCEPT ![c.Body_A] = Activate(@), ![c.Body_B] = Activate(@)]
    ELSE [bodies EXCEPT ![c.Body_A] = Activate(@)]

\* Collision::ActivateInactiveBodies (): contacts with the scenery never wake
\* a body
ActivateInactiveBodies(c, bodies) ==
    IF c.Body_B # 0 /\ (bodies[c.Body_A].IsActive # bodies[c.Body_B].IsActive)
    THEN IF bodies[c.Body_A].IsActive
         THEN [bodies EXCEPT ![c.Body_B] = Activate(@)]
         ELSE [bodies EXCEPT ![c.Body_A] = Activate(@)]
    ELSE bodies

\* Collision::FindOrthonormalBasisAtContactPoint (): the value of ToWorld.
\* BasisNearX is the branch for a normal nearer to the X axis, where tangent_Y
\* is at right angles to the world Y axis; BasisNearY the branch for a normal
\* nearer to the Y axis, where tangent_Y is at right angles to the world X
\* axis.  A normal that is not finite, or one for which the length the code
\* divides by is 0, leaves a basis that is not finite.
FindOrthonormalBasisAtContactPoint(c) ==
    LET ContactBasis(N, tY, tZ) == SetColumnVectors(N, tY, Normalize(tZ, One))
        BasisNearX(N, length) ==
            ContactBasis(N,
                Quaternion(0, FMul(N.z, length), 0, FMul(0 - N.x, length)),
                Quaternion(0, FMul(N.y, FMul(N.z, length)),
                              FMul(N.z, FMul(N.z, length)) - FMul(N.x, FMul(0 - N.x, length)),
                              FMul(0 - N.y, FMul(N.z, length))))
        BasisNearY(N, length) ==
            ContactBasis(N,
                Quaternion(0, 0, FMul(0 - N.z, length), FMul(N.y, length)),
                Quaternion(0, FMul(N.y, FMul(N.y, length)) - FMul(N.z, FMul(0 - N.z, length)),
                              FMul(0 - N.x, FMul(N.y, length)),
                              FMul(N.x, FMul(0 - N.z, length))))
    IN  IF QIsNaN(c.Normal) THEN TNaN
        ELSE IF Abs(c.Normal.x) > Abs(c.Normal.y)
        THEN IF ISqrt(c.Normal.z * c.Normal.z + c.Normal.x * c.Normal.x) = 0 THEN TNaN
             ELSE BasisNearX(c.Normal,
                      FDiv(One, ISqrt(c.Normal.z * c.Normal.z + c.Normal.x * c.Normal.x)))
        ELSE IF ISqrt(c.Normal.z * c.Normal.z + c.Normal.y * c.Normal.y) = 0 THEN TNaN
             ELSE BasisNearY(c.Normal,
                      FDiv(One, ISqrt(c.Normal.z * c.Normal.z + c.Normal.y * c.Normal.y)))

\* Collision::GetRelativeVelocity( body, relativePosition, h ), in the contact
\* frame basis
GetRelativeVelocity(basis, body, relativePosition, hh) ==
    IF basis = TNaN \/ QIsNaN(body.Velocity) \/ QIsNaN(body.AngularVelocity) THEN QNaN
    ELSE
    LET V_world == QAdd(body.Velocity, Cross(body.AngularVelocity, relativePosition))
        V == TransformInverse(basis, V_world)
        dV_world == QScale(QScale(body.Force, body.InverseMass), hh)
        dV == [TransformInverse(basis, dV_world) EXCEPT !.x = 0]
    IN  QAdd(V, dV)

\* Collision::GetBouncingVelocity( h ).  VelocityFromForce is the velocity the
\* force on a body builds up in the step, along the normal; EffectiveCOR the
\* coefficient of restitution used, 0 for a slow contact.
GetBouncingVelocity(c, bodies, hh) ==
    LET VelocityFromForce(body) ==
            IF body.IsActive
            THEN Dot(QScale(QScale(body.Force, body.InverseMass), hh), c.Normal)
            ELSE 0
        EffectiveCOR(dV_fromForce_x) ==
            IF Abs(c.Velocity.x - dV_fromForce_x) < One \div 4 THEN 0 ELSE c.Restitution
        Bounce(dV_fromForce_x) ==
              FMul(0 - (One + EffectiveCOR(dV_fromForce_x)), c.Velocity.x)
            + FMul(EffectiveCOR(dV_fromForce_x), dV_fromForce_x)
    IN  IF QIsNaN(c.Velocity) \/ QIsNaN(c.Normal) THEN NaN
        ELSE Bounce(  VelocityFromForce(bodies[c.Body_A])
                    - (IF c.Body_B # 0 THEN VelocityFromForce(bodies[c.Body_B]) ELSE 0))

\* A contact both bodies of which are null: of two geometries without a body
Unbodied(c) == c.Body_A = 0 /\ c.Body_B = 0

\* The contact UpdateDerivedQuantities has reached Body_A->Position of, with
\* Body_A null: the normal is reversed and the basis found, the rest is as it
\* was
Faulted(c, basis) == [c EXCEPT !.ToWorld = basis]

\* The contact UpdateDerivedQuantities leaves when the reads through the null
\* Body_A return: what they return is no quantity of any body
Unread(c, basis) ==
    [c EXCEPT !.ToWorld = basis,
              !.RelativePosition = <<QNaN, @[2]>>,
              !.Velocity = QNaN,
              !.BouncingVelocity = NaN]

\* Collision::UpdateDerivedQuantities( h ).  The swap of Body_A and Body_B
\* leaves Body_A null when both are null, and Body_A->Position is read
\* through the null pointer: the behaviour is undefined.
UpdateDerivedQuantities(c, bodies, hh) ==
    LET Bouncing(withVelocity) ==
            [withVelocity EXCEPT
                !.BouncingVelocity = GetBouncingVelocity(withVelocity, bodies, hh)]
        Relative(s, basis, r0, r1, v0, v1) ==
            Bouncing([s EXCEPT
                !.ToWorld = basis,
                !.RelativePosition = <<r0, r1>>,
                !.Velocity = IF QIsNaN(v0) \/ QIsNaN(v1) THEN QNaN ELSE QSub(v0, v1)])
        Positioned(s, basis, r0, r1) ==
            Relative(s, basis, r0, r1,
                GetRelativeVelocity(basis, bodies[s.Body_A], r0, hh),
                IF s.Body_B # 0
                THEN GetRelativeVelocity(basis, bodies[s.Body_B], r1, hh)
                ELSE QZero)
        Swapped(s) ==
            Positioned(s, FindOrthonormalBasisAtContactPoint(s),
                QSub(s.Position, bodies[s.Body_A].Position),
                IF s.Body_B # 0
                THEN QSub(s.Position, bodies[s.Body_B].Position)
                ELSE s.RelativePosition[2])
        Reversed(s) == [s EXCEPT !.Normal = IF QIsNaN(s.Normal) THEN QNaN ELSE QNeg(s.Normal),
                                 !.Body_A = s.Body_B,
                                 !.Body_B = s.Body_A]
    IN  IF Unbodied(c) THEN Unread(Reversed(c), FindOrthonormalBasisAtContactPoint(Reversed(c)))
        ELSE Swapped(IF c.Body_A = 0 THEN Reversed(c) ELSE c)

\* CollisionResolver::UpdateDerivedQuantities( timeStep )
ResolverUpdateDerivedQuantities(owner, bodies, hh) ==
    [owner EXCEPT !.Collisions =
        [k \in 1..owner.MaxCollisionCount |->
            IF k <= owner.CollisionCount
            THEN UpdateDerivedQuantities(owner.Collisions[k], bodies, hh)
            ELSE owner.Collisions[k]]]

\* The first contact of the registry both bodies of which are null; 0 when
\* there is none
FirstUnbodied(owner) ==
    IF \E k \in 1..owner.CollisionCount : Unbodied(owner.Collisions[k])
    THEN CHOOSE k \in 1..owner.CollisionCount :
             /\ Unbodied(owner.Collisions[k])
             /\ \A j \in 1..(k - 1) : ~ Unbodied(owner.Collisions[j])
    ELSE 0

\* CollisionResolver::UpdateDerivedQuantities( timeStep ) that the read through
\* the null Body_A of contact `first` ends: the contacts after it are as
\* detected
UpdateDerivedQuantitiesUntil(owner, bodies, hh, first) ==
    [owner EXCEPT !.Collisions =
        [k \in 1..owner.MaxCollisionCount |->
            IF k < first THEN UpdateDerivedQuantities(owner.Collisions[k], bodies, hh)
            ELSE IF k = first
            THEN Faulted([owner.Collisions[k] EXCEPT
                             !.Normal = IF QIsNaN(@) THEN QNaN ELSE QNeg(@)],
                         FindOrthonormalBasisAtContactPoint(
                             [owner.Collisions[k] EXCEPT
                                 !.Normal = IF QIsNaN(@) THEN QNaN ELSE QNeg(@)]))
            ELSE owner.Collisions[k]]]

\* A search that takes a contact whose value is eps, and the last of the
\* contacts that share the largest value
RECURSIVE FindLargestOrEqual(_, _, _, _, _)
FindLargestOrEqual(values, count, i, eps, found) ==
    IF i > count THEN found
    ELSE IF values[i] # NaN /\ values[i] >= eps
         THEN FindLargestOrEqual(values, count, i + 1, values[i], i)
         ELSE FindLargestOrEqual(values, count, i + 1, eps, found)

\* The first contact of the registry with the largest value above eps, as both
\* FindLargest... loops find it; 0 is the null pointer.  A value that is not
\* finite compares false.
RECURSIVE FindLargest(_, _, _, _, _)
FindLargest(values, count, i, eps, found) ==
    IF i > count THEN found
    ELSE IF values[i] # NaN /\ values[i] > eps
         THEN FindLargest(values, count, i + 1, values[i], i)
         ELSE FindLargest(values, count, i + 1, eps, found)

FindLargestBouncingVelocity(owner, eps) ==
    FindLargest([k \in 1..owner.MaxCollisionCount |-> owner.Collisions[k].BouncingVelocity],
                owner.CollisionCount, 1, eps, 0)

\* A search that looks at the first contact of the registry only
FindPenetrationOfFirst(owner, eps) ==
    FindLargest([k \in 1..owner.MaxCollisionCount |-> owner.Collisions[k].Penetration],
                IF owner.CollisionCount > 1 THEN 1 ELSE owner.CollisionCount, 1, eps, 0)

FindLargestPenetration(owner, eps) ==
    FindLargest([k \in 1..owner.MaxCollisionCount |-> owner.Collisions[k].Penetration],
                owner.CollisionCount, 1, eps, 0)

\* ---------------------------------------------------------------------------
\* Impulse method
\* ---------------------------------------------------------------------------

\* ( ( I_world^-1 ( r x N ) ) x r ) . N of one body of a contact
AngularInertia(body, r, N) ==
    Dot(Cross(TApply(body.InverseInertiaWorld, Cross(r, N)), r), N)

\* invRedMass of Collision::GetImpulse (): the sum over the bodies of the
\* contact of m^-1 + ( ( I_world^-1 ( r x N ) ) x r ) . N
InverseReducedMass(c, bodies) ==
      bodies[c.Body_A].InverseMass
    + AngularInertia(bodies[c.Body_A], c.RelativePosition[1], c.Normal)
    + (IF c.Body_B # 0
       THEN bodies[c.Body_B].InverseMass
            + AngularInertia(bodies[c.Body_B], c.RelativePosition[2], c.Normal)
       ELSE 0)

\* Collision::GetImpulse (): the impulse along the contact normal, in the
\* contact frame; not finite when the inverse reduced mass is 0
GetImpulse(c, bodies) ==
    LET NormalImpulse(invRedMass) ==
            IF invRedMass = 0 THEN QNaN
            ELSE SpatialVector(FDiv(c.BouncingVelocity, invRedMass), 0, 0)
    IN  NormalImpulse(InverseReducedMass(c, bodies))

\* An impulse that pushes every body the same way, whichever body of the
\* contact it is
AddRectified(b, J, J_torque) ==
    IF QIsNaN(J) \/ QIsNaN(b.LinearMomentum) \/ QIsNaN(b.AngularMomentum)
    THEN [b EXCEPT !.LinearMomentum = QNaN, !.AngularMomentum = QNaN]
    ELSE [b EXCEPT !.LinearMomentum =
                       QAdd(@, Quaternion(0, Abs(J.x), Abs(J.y), Abs(J.z))),
                   !.AngularMomentum = QAdd(@, J_torque)]

\* LinearMomentum += J; AngularMomentum += J_torque on one body
AddImpulse(b, J, J_torque) ==
    IF QIsNaN(J) \/ QIsNaN(b.LinearMomentum) \/ QIsNaN(b.AngularMomentum)
    THEN [b EXCEPT !.LinearMomentum = QNaN, !.AngularMomentum = QNaN]
    ELSE [b EXCEPT !.LinearMomentum = QAdd(@, J), !.AngularMomentum = QAdd(@, J_torque)]

\* Collision::ImpulseTransfer( V_jolt, W_jolt ): the bodies after the transfer
\* and the two pairs of jolts.  The worlds of the model are frictionless
\* (Friction = 0, as the resolver is constructed), so that J_contact is
\* GetImpulse ().  Body_A gets LinearMomentum += J and AngularMomentum +=
\* J_torque; Body_B, if it is not scenery, LinearMomentum -= J and
\* AngularMomentum -= J_torque.
ImpulseTransfer(c, bodies) ==
    LET ToWorld(J_contact) ==
            IF QIsNaN(J_contact) THEN QNaN ELSE TApply(c.ToWorld, J_contact)
        J_torque(i, J) ==
            IF QIsNaN(J) THEN QNaN ELSE Cross(c.RelativePosition[i + 1], J)
        Body_A(J) ==
            [bodies EXCEPT ![c.Body_A] = AddImpulse(@, J, J_torque(0, J))]
        Body_B(J) ==
            IF c.Body_B = 0 THEN Body_A(J)
            ELSE [Body_A(J) EXCEPT ![c.Body_B] =
                     AddImpulse(@, IF QIsNaN(J) THEN QNaN ELSE QNeg(J),
                                   IF QIsNaN(J) THEN QNaN ELSE QNeg(J_torque(1, J)))]
        Transfer(J) ==
            [ bodies |-> Body_B(J),
              V_jolt |-> << IF QIsNaN(J) THEN QNaN
                            ELSE QScale(J, bodies[c.Body_A].InverseMass),
                            IF c.Body_B = 0 THEN QZero
                            ELSE IF QIsNaN(J) THEN QNaN
                            ELSE QNeg(QScale(J, bodies[c.Body_B].InverseMass)) >>,
              W_jolt |-> << IF QIsNaN(J) THEN QNaN
                            ELSE TApply(bodies[c.Body_A].InverseInertiaWorld,
                                        J_torque(0, J)),
                            IF c.Body_B = 0 THEN QZero
                            ELSE IF QIsNaN(J) THEN QNaN
                            ELSE QNeg(TApply(bodies[c.Body_B].InverseInertiaWorld,
                                             J_torque(1, J))) >> ]
    IN  Transfer(ToWorld(GetImpulse(c, bodies)))

\* One pass of the innermost loop of ImpulseTransfers: body a of contact c_i
\* against body b of the resolved contact.  c_i.Velocity += a ? -dV_world :
\* dV_world; then the bouncing velocity anew.
VelocityJolt(c_i, contact, bodies, V_jolt, W_jolt, hh, a, b) ==
    LET Bouncing(moved) ==
            [moved EXCEPT !.BouncingVelocity = GetBouncingVelocity(moved, bodies, hh)]
        AddVelocity(dV_world) ==
            Bouncing([c_i EXCEPT !.Velocity =
                         IF QIsNaN(dV_world) THEN QNaN
                         ELSE IF a = 1 THEN QSub(@, dV_world) ELSE QAdd(@, dV_world)])
    IN  IF BodyOf(c_i, a) = 0 \/ BodyOf(c_i, a) # BodyOf(contact, b) THEN c_i
        ELSE AddVelocity(
                 IF QIsNaN(V_jolt[b + 1]) \/ QIsNaN(W_jolt[b + 1])
                       \/ QIsNaN(c_i.Velocity) \/ c_i.ToWorld = TNaN
                 THEN QNaN
                 ELSE TransformInverse(c_i.ToWorld,
                          QAdd(V_jolt[b + 1],
                               Cross(W_jolt[b + 1], c_i.RelativePosition[a + 1]))))

\* The body of the loop of CollisionResolver::ImpulseTransfers on the contact
\* found: wakes its bodies, transfers the impulse, and in the loops over the
\* contacts, their bodies a and the bodies b of the resolved contact, updates
\* the contacts that share a body with it
ImpulseIteration(owner, bodies, k, hh) ==
    LET upd(c, contact, t, a, b) ==
            VelocityJolt(c, contact, t.bodies, t.V_jolt, t.W_jolt, hh, a, b)
        Update(contact, t) ==
            [ bodies |-> t.bodies,
              owner |-> [owner EXCEPT !.Collisions =
                  [i \in 1..owner.MaxCollisionCount |->
                      IF i <= owner.CollisionCount
                      THEN upd(upd(upd(upd(owner.Collisions[i], contact, t, 0, 0),
                                       contact, t, 0, 1), contact, t, 1, 0),
                               contact, t, 1, 1)
                      ELSE owner.Collisions[i]]] ]
    IN  Update(owner.Collisions[k],
               ImpulseTransfer(owner.Collisions[k],
                               ActivateInactiveBodies(owner.Collisions[k], bodies)))

\* ---------------------------------------------------------------------------
\* Position projections
\* ---------------------------------------------------------------------------

\* const double Q_limit
Q_limit == 300

\* The second loop of Collision::PositionProjection for body i of the contact:
\* the body after the jolt, and the jolt.
\*   Split: the linear and the angular movement in proportion to the inertias;
\*   Limit: the limit on the angular movement;
\*   Move:  X_jolt = Normal * delta_X; Q_jolt = I_world^-1 ( r x N ) *
\*          ( delta_Q / inverseAngInertia );
\*   Apply: Position += X_jolt; with an angular movement, Orientation += 0.5 *
\*          Q_jolt * Orientation and CalculateDerivedQuantities ().
\* A total inertia of 0 makes the divisions 0/0: the movements, the position
\* and the orientation of the body are then not finite.
ProjectBody(c, body, i, inverseAngInertia, inverseTotalInertia, relaxation) ==
    LET Apply(X_jolt, Q_jolt, delta_Q) ==
            IF delta_Q = 0
            THEN [ body |-> [body EXCEPT !.Position = QAdd(@, X_jolt)],
                   X_jolt |-> X_jolt,
                   Q_jolt |-> QZero ]
            ELSE [ body |-> CalculateDerivedQuantities(
                                [body EXCEPT !.Position = QAdd(@, X_jolt),
                                             !.Orientation =
                                                 QAdd(@, QMul(QScale(Q_jolt, One \div 2), @))],
                                TRUE),
                   X_jolt |-> X_jolt,
                   Q_jolt |-> Q_jolt ]
        Move(delta_X, delta_Q) ==
            Apply(QScale(c.Normal, delta_X),
                  QScale(TApply(body.InverseInertiaWorld,
                                Cross(c.RelativePosition[i + 1], c.Normal)),
                         FDiv(delta_Q, inverseAngInertia)),
                  delta_Q)
        Limit(delta_X, delta_Q, max_Q) ==
            Move(IF delta_Q < 0 - max_Q THEN (delta_X + delta_Q) + max_Q
                 ELSE IF delta_Q > max_Q THEN (delta_X + delta_Q) - max_Q
                 ELSE delta_X,
                 IF delta_Q < 0 - max_Q THEN 0 - max_Q
                 ELSE IF delta_Q > max_Q THEN max_Q
                 ELSE delta_Q)
        Split(penetration) ==
            Limit(FMul(penetration, FDiv(body.InverseMass, inverseTotalInertia)),
                  FMul(penetration, FDiv(inverseAngInertia, inverseTotalInertia)),
                  FMul(Q_limit,
                       ImNorm(QSub(c.RelativePosition[i + 1],
                                   QScale(c.Normal,
                                          Dot(c.RelativePosition[i + 1], c.Normal))))))
    IN  IF QIsNaN(c.Normal) \/ inverseTotalInertia = 0
        THEN [ body |-> CalculateDerivedQuantities(
                            [body EXCEPT !.Position = QNaN, !.Orientation = QNaN], TRUE),
               X_jolt |-> QNaN,
               Q_jolt |-> QNaN ]
        ELSE Split(IF 0 < relaxation /\ relaxation <= One
                   THEN FMul(IF i = 0 THEN c.Penetration ELSE 0 - c.Penetration,
                             One - relaxation)
                   ELSE IF i = 0 THEN c.Penetration ELSE 0 - c.Penetration)

\* inverseAngInertia[] of Collision::PositionProjection, found by its first
\* loop: ( ( I_world^-1 ( r x N ) ) x r ) . N of each body of the contact
InverseAngInertia(c, bodies) ==
    [i \in 0..1 |->
        IF QIsNaN(c.Normal) \/ BodyOf(c, i) = 0 THEN 0
        ELSE AngularInertia(bodies[BodyOf(c, i)], c.RelativePosition[i + 1], c.Normal)]

\* inverseTotalInertia of Collision::PositionProjection, summed by its first
\* loop: the linear and the angular components of each body of the contact
InverseTotalInertia(c, bodies) ==
      bodies[c.Body_A].InverseMass + InverseAngInertia(c, bodies)[0]
    + (IF c.Body_B # 0
       THEN bodies[c.Body_B].InverseMass + InverseAngInertia(c, bodies)[1]
       ELSE 0)

\* Collision::PositionProjection( X_jolt, Q_jolt, relaxation ): the bodies
\* after the projection and the two pairs of jolts.  The first loop finds the
\* angular inertia of each body and the total inertia, the sum of the linear
\* and the angular components; the second loop moves the bodies, p[0] and p[1]
\* being its results.  Scenery is skipped and its jolts stay 0.
PositionProjection(c, bodies, relaxation) ==
    LET Projected(p) ==
            [ bodies |-> [k \in 1..Len(bodies) |->
                             IF k = c.Body_A THEN p[0].body
                             ELSE IF k = c.Body_B THEN p[1].body
                             ELSE bodies[k]],
              X_jolt |-> <<p[0].X_jolt, p[1].X_jolt>>,
              Q_jolt |-> <<p[0].Q_jolt, p[1].Q_jolt>> ]
        SecondLoop(inverseAngInertia, inverseTotalInertia) ==
            Projected(
                [i \in 0..1 |->
                    IF BodyOf(c, i) = 0
                    THEN [body |-> 0, X_jolt |-> QZero, Q_jolt |-> QZero]
                    ELSE ProjectBody(c, bodies[BodyOf(c, i)], i, inverseAngInertia[i],
                                     inverseTotalInertia, relaxation)])
    IN  SecondLoop(InverseAngInertia(c, bodies), InverseTotalInertia(c, bodies))

\* One pass of the innermost loop of PositionProjections: body a of contact
\* c_aff against body b of the projected contact
PenetrationJolt(c_aff, contact, X_jolt, Q_jolt, a, b) ==
    IF BodyOf(c_aff, a) = 0 \/ BodyOf(c_aff, a) # BodyOf(contact, b) THEN c_aff
    ELSE IF \/ QIsNaN(X_jolt[b + 1]) \/ QIsNaN(Q_jolt[b + 1])
            \/ QIsNaN(c_aff.Normal) \/ c_aff.Penetration = NaN
    THEN [c_aff EXCEPT !.Penetration = NaN]
    ELSE IF a = 1
    THEN [c_aff EXCEPT !.Penetration =
             @ + Dot(QAdd(X_jolt[b + 1],
                          Cross(Q_jolt[b + 1], c_aff.RelativePosition[a + 1])),
                     c_aff.Normal)]
    ELSE [c_aff EXCEPT !.Penetration =
             @ - Dot(QAdd(X_jolt[b + 1],
                          Cross(Q_jolt[b + 1], c_aff.RelativePosition[a + 1])),
                     c_aff.Normal)]

\* The body of the loop of CollisionResolver::PositionProjections on the
\* contact found: wakes its bodies, projects them, and in the loops over the
\* contacts, their bodies a and the bodies b of the projected contact, updates
\* the penetrations of the contacts that share a body with it
ProjectionIteration(owner, bodies, k) ==
    LET upd(c, contact, t, a, b) == PenetrationJolt(c, contact, t.X_jolt, t.Q_jolt, a, b)
        Update(contact, t) ==
            [ bodies |-> t.bodies,
              owner |-> [owner EXCEPT !.Collisions =
                  [i \in 1..owner.MaxCollisionCount |->
                      IF i <= owner.CollisionCount
                      THEN upd(upd(upd(upd(owner.Collisions[i], contact, t, 0, 0),
                                       contact, t, 0, 1), contact, t, 1, 0),
                               contact, t, 1, 1)
                      ELSE owner.Collisions[i]]] ]
    IN  Update(owner.Collisions[k],
               PositionProjection(owner.Collisions[k],
                                  ActivateInactiveBodies(owner.Collisions[k], bodies),
                                  owner.Relaxation))

\* ---------------------------------------------------------------------------
\* Construction of the objects of a world
\* ---------------------------------------------------------------------------

\* Sphere::SetMass( mass )
SphereSetMass(b, radius, mass) ==
    LET Ixx == FMul(FMul(FMul(400, mass), radius), radius)
    IN  CalculateDerivedQuantities(
            SetMomentOfInertia(SetupMass(b, mass), QTensorDiag(Ixx, Ixx, Ixx)), FALSE)

\* Cuboid::SetMass( mass )
CuboidSetMass(b, halfExtent, mass) ==
    LET extent == QScale(halfExtent, 2 * One)
        sq == ComponentWiseProduct(extent, extent)
    IN  CalculateDerivedQuantities(
            SetMomentOfInertia(SetupMass(b, mass),
                QTensorDiag(FMul(mass, sq.y + sq.z) \div 12,
                            FMul(mass, sq.x + sq.z) \div 12,
                            FMul(mass, sq.x + sq.y) \div 12)), FALSE)

\* Ball::Ball( position, orientation, velocity, angularVelocity, radius, mass )
Ball(position, orientation, velocity, angularVelocity, radius, mass) ==
    Activate(Set_XQVW(SphereSetMass(RigidBody, radius, mass),
                      position, orientation, velocity, angularVelocity))

\* Box::Box( position, orientation, velocity, angularVelocity, halfExtent, mass )
Box(position, orientation, velocity, angularVelocity, halfExtent, mass) ==
    Activate(Set_XQVW(CuboidSetMass(RigidBody, halfExtent, mass),
                      position, orientation, velocity, angularVelocity))

\* body.SetCanBeDeactivated( true ); body.Deactivate (): a body put to rest
\* before it is added to the world
AtRest(b) == Deactivate(SetCanBeDeactivated(b, TRUE))

\* The arguments of a constructor call: of Ball when halfExtent is 0, of Box
\* otherwise; atRest tells whether the body is put to rest before it is added
Arguments(X, Q, V, W, radius, halfExtent, mass, atRest) ==
    [ position |-> X, orientation |-> Q, velocity |-> V, angularVelocity |-> W,
      radius |-> radius, halfExtent |-> halfExtent, mass |-> mass, atRest |-> atRest ]

\* The body a constructor call makes, after the calls made on it before it is
\* added to the world
Construct(d) ==
    LET Made(b) == IF d.atRest THEN AtRest(b) ELSE b
    IN  Made(IF d.halfExtent = QZero
             THEN Ball(d.position, d.orientation, d.velocity, d.angularVelocity,
                       d.radius, d.mass)
             ELSE Box(d.position, d.orientation, d.velocity, d.angularVelocity,
                      d.halfExtent, d.mass))

\* ---------------------------------------------------------------------------
\* WorldOfRigidBodies: the state
\* ---------------------------------------------------------------------------

VARIABLES
    Object,                \* Geometry* Object[]: the geometries, in the order added
    Body,                  \* the rigid bodies the geometries point to, by number
    Gravity,
    Time,
    TimeStepCount,
    TotalKineticEnergy,
    TotalPotentialEnergy,
    TotalLinearMomentum,
    TotalAngularMomentum,
    Collisions,            \* CollisionResolver Collisions, with its registry
    pc,                    \* the phase SolveODE is about to execute; "idle" outside
    h,                     \* the argument of the running SolveODE
    cursor,                \* <<i, j>> of the collision detection loops
    iteration,             \* the loop counter of the running resolver
    maxIterations,         \* its iteration cap
    phases,                \* history: the phases the last SolveODE has executed
    entryCount,            \* history: the contact count at the entry of the resolver
    calls                  \* history: the number of calls made between the steps

scene == <<Object, Gravity>>

totals == <<TotalKineticEnergy, TotalPotentialEnergy, TotalLinearMomentum,
            TotalAngularMomentum>>

clock == <<Time, TimeStepCount>>

loop == <<iteration, maxIterations, entryCount>>

vars == <<Object, Body, Gravity, Time, TimeStepCount, TotalKineticEnergy,
          TotalPotentialEnergy, TotalLinearMomentum, TotalAngularMomentum,
          Collisions, pc, h, cursor, iteration, maxIterations, phases,
          entryCount, calls>>

ObjectCount == Len(Object)

BodyCount == Len(Body)

\* Number of steps of a run
MaxSteps == 2

\* Number of calls made on the bodies and the registry between the steps
MaxCalls == 1

\* worb.Gravity as a caller sets it: the standard gravity, along -z
Gravity_z == Quaternion(0, 0, 0, -9807)

\* velocityEPS and positionEPS: 0.01
EPS == 10

\* Sum of a scalar field over the bodies
RECURSIVE SumOver(_, _)
SumOver(values, n) == IF n = 0 THEN 0 ELSE values[n] + SumOver(values, n - 1)

\* Sum of a quaternion field over the bodies
RECURSIVE QSumOver(_, _)
QSumOver(values, n) == IF n = 0 THEN QZero ELSE QAdd(values[n], QSumOver(values, n - 1))

NoNaN(bodies) ==
    \A k \in 1..Len(bodies) : ~ BodyIsNaN(bodies[k]) /\ ~ MomentumIsNaN(bodies[k])

\* ---------------------------------------------------------------------------
\* The worlds of the model, as a test bed or a caller of the library sets them
\* up: the geometries in the order added and the constructor calls of their
\* bodies; then InitializeODE ()
\* ---------------------------------------------------------------------------

Z_axis == Quaternion(0, 0, 0, One)

QOne == Quaternion(One, 0, 0, 0)

\* The ground: the half-space z < 0
Ground == HalfSpace(Z_axis, 0)

World(objects, bodies, gravity, length, relaxation) ==
    [ Object |-> objects, Body |-> bodies, Gravity |-> gravity,
      MaxCollisions |-> length, Relaxation |-> relaxation ]

Worlds ==
    LET NewBall(X, Q, V, W, radius, mass) ==
            Arguments(X, Q, V, W, radius, QZero, mass, FALSE)
        NewBox(X, Q, V, W, halfExtent, mass) ==
            Arguments(X, Q, V, W, 0, halfExtent, mass, FALSE)
        Resting(arguments) == [arguments EXCEPT !.atRest = TRUE]
    IN
    { \* a spinning ball that has sunk into the ground and moves downwards
      World(<<Ground, Sphere(1, One)>>,
            <<NewBall(SpatialVector(0, 0, 900), QOne, SpatialVector(0, 0, -1000),
                      SpatialVector(2000, 0, 0), One, One)>>,
            Gravity_z, 4, One \div 5),
      \* two overlapping balls of different mass that approach each other
      World(<<Sphere(1, One), Sphere(2, One)>>,
            <<NewBall(SpatialVector(0, 0, 5000), QOne, SpatialVector(1000, 0, 0),
                      QZero, One, One),
              NewBall(SpatialVector(1500, 0, 5000), QOne, SpatialVector(-1000, 0, 0),
                      SpatialVector(0, 0, 3000), One, 2 * One)>>,
            QZero, 4, One \div 5),
      \* a ball at rest that has sunk into the ground, in a world without gravity
      World(<<Sphere(1, One), Ground>>,
            <<Resting(NewBall(SpatialVector(0, 0, 500), QOne, QZero, QZero, One, One))>>,
            QZero, 4, One \div 5),
      \* three contacts for a registry of two: two overlapping balls in the ground
      World(<<Ground, Sphere(1, One), Sphere(2, One)>>,
            <<NewBall(SpatialVector(0, 0, 900), QOne, SpatialVector(0, 0, -1000),
                      QZero, One, One),
              NewBall(SpatialVector(1200, 0, 800), QOne, QZero, QZero, One, One)>>,
            Gravity_z, 2, One \div 5),
      \* a tilted box with several vertices in the ground, and a registry of two
      World(<<Cuboid(1, SpatialVector(One, One, One)), Ground>>,
            <<NewBox(SpatialVector(0, 0, One), Quaternion(940, 242, 242, 0),
                     SpatialVector(0, 0, -1000), QZero,
                     SpatialVector(One, One, One), 2 * One)>>,
            Gravity_z, 2, One \div 5),
      \* a box lying flat, sunk into the ground
      World(<<Ground, Cuboid(1, SpatialVector(One, One, One \div 2))>>,
            <<NewBox(SpatialVector(0, 0, 400), QOne, QZero, QZero,
                     SpatialVector(One, One, One \div 2), One)>>,
            Gravity_z, 4, One \div 5),
      \* a ball of infinite mass that has sunk into the ground
      World(<<Ground, Sphere(1, One)>>,
            <<NewBall(SpatialVector(0, 0, 900), QOne, QZero, QZero, One, InfiniteMass)>>,
            Gravity_z, 4, One \div 5),
      \* a ball in the ground, in a world whose relaxation coefficient is 1
      World(<<Ground, Sphere(1, One)>>,
            <<NewBall(SpatialVector(0, 0, 900), QOne, QZero, QZero, One, One)>>,
            Gravity_z, 4, One),
      \* a ball high above the ground
      World(<<Ground, Sphere(1, One)>>,
            <<NewBall(SpatialVector(0, 0, 10 * One), QOne, QZero, QZero, One, One)>>,
            Gravity_z, 4, One \div 5),
      \* a moving ball that overlaps a ball at rest
      World(<<Sphere(1, One), Sphere(2, One)>>,
            <<NewBall(SpatialVector(0, 0, 5000), QOne, SpatialVector(2000, 0, 0),
                      QZero, One, One),
              Resting(NewBall(SpatialVector(1800, 0, 5000), QOne, QZero, QZero,
                              One, One))>>,
            Gravity_z, 4, One \div 5) }

\* WorldOfRigidBodies::InitializeODE (): the bodies it leaves
InitializeODE(bodies) ==
    [k \in 1..Len(bodies) |-> ClearAccumulators(CalculateDerivedQuantities(bodies[k], TRUE))]

Init ==
    \E world \in Worlds :
        /\ Object = world.Object
        /\ Body = InitializeODE([k \in 1..Len(world.Body) |-> Construct(world.Body[k])])
        /\ Gravity = world.Gravity
        /\ Time = 0
        /\ TimeStepCount = 0
        /\ TotalKineticEnergy =
               SumOver([k \in 1..Len(Body) |-> Body[k].KineticEnergy], Len(Body))
        /\ TotalPotentialEnergy =
               SumOver([k \in 1..Len(Body) |-> Body[k].PotentialEnergy], Len(Body))
        /\ TotalLinearMomentum =
               QSumOver([k \in 1..Len(Body) |-> Body[k].LinearMomentum], Len(Body))
        /\ TotalAngularMomentum =
               QSumOver([k \in 1..Len(Body) |-> Body[k].TotalAngularMomentum], Len(Body))
        /\ Collisions = [Initialize(CollisionResolver(world.MaxCollisions))
                            EXCEPT !.Relaxation = world.Relaxation]
        /\ pc = "idle"
        /\ h = 0
        /\ cursor = <<0, 0>>
        /\ iteration = 0
        /\ maxIterations = 0
        /\ phases = << >>
        /\ entryCount = 0
        /\ calls = 0

\* ---------------------------------------------------------------------------
\* WorldOfRigidBodies::SolveODE( h ), phase by phase
\* ---------------------------------------------------------------------------

\* A statement order in which the position projections come before the
\* impulse transfers
ProjectionsFirst(phase) ==
    CASE phase = "gravity"     -> "integrate"
      [] phase = "integrate"   -> "clock"
      [] phase = "clock"       -> "aggregates"
      [] phase = "aggregates"  -> "detect"
      [] phase = "detect"      -> "update"
      [] phase = "update"      -> "projections"
      [] phase = "projections" -> "impulses"
      [] phase = "impulses"    -> "clear"
      [] OTHER                 -> "idle"

\* The statement order of SolveODE: where the control goes after each phase
After(phase) ==
    CASE phase = "gravity"     -> "integrate"
      [] phase = "integrate"   -> "clock"
      [] phase = "clock"       -> "aggregates"
      [] phase = "aggregates"  -> "detect"
      [] phase = "detect"      -> "update"
      [] phase = "update"      -> "impulses"
      [] phase = "impulses"    -> "projections"
      [] phase = "projections" -> "clear"
      [] OTHER                 -> "idle"

\* Add gravity: the first loop of SolveODE
AddGravity(hh) ==
    /\ pc = "idle"
    /\ NoNaN(Body)
    /\ h' = hh
    /\ Body' = [k \in 1..BodyCount |->
                  LET f_g == QScale(Gravity, Mass(Body[k]))
                      E_p == 0 - Dot(f_g, Body[k].Position)
                  IN  AddExternalForce(Body[k], f_g, E_p)]
    /\ phases' = <<"gravity">>
    /\ pc' = After("gravity")
    /\ UNCHANGED <<scene, clock, totals, Collisions, cursor, loop, calls>>

\* Solve ODE for every object in the system
Integrate ==
    /\ pc = "integrate"
    /\ Body' = [k \in 1..BodyCount |-> BodySolveODE(Body[k], h)]
    /\ phases' = Append(phases, "integrate")
    /\ pc' = After("integrate")
    /\ UNCHANGED <<scene, clock, totals, Collisions, h, cursor, loop, calls>>

\* A clock that accumulates the step lengths: Time += h
AccumulateClock ==
    /\ pc = "clock"
    /\ TimeStepCount' = TimeStepCount + 1
    /\ Time' = Time + h
    /\ phases' = Append(phases, "clock")
    /\ pc' = After("clock")
    /\ UNCHANGED <<scene, Body, totals, Collisions, h, cursor, loop, calls>>

\* Time = h * (++TimeStepCount)
AdvanceClock ==
    /\ pc = "clock"
    /\ TimeStepCount' = TimeStepCount + 1
    /\ Time' = h * (TimeStepCount + 1)
    /\ phases' = Append(phases, "clock")
    /\ pc' = After("clock")
    /\ UNCHANGED <<scene, Body, totals, Collisions, h, cursor, loop, calls>>

\* Calculate derived quantities: the totals over the bodies
Aggregate ==
    /\ pc = "aggregates"
    /\ TotalKineticEnergy' = SumOver([k \in 1..BodyCount |-> Body[k].KineticEnergy], BodyCount)
    /\ TotalPotentialEnergy' = SumOver([k \in 1..BodyCount |-> Body[k].PotentialEnergy], BodyCount)
    /\ TotalLinearMomentum' = QSumOver([k \in 1..BodyCount |-> Body[k].LinearMomentum], BodyCount)
    /\ TotalAngularMomentum' =
           QSumOver([k \in 1..BodyCount |-> Body[k].TotalAngularMomentum], BodyCount)
    /\ phases' = Append(phases, "aggregates")
    /\ pc' = After("aggregates")
    /\ UNCHANGED <<scene, Body, clock, Collisions, h, cursor, loop, calls>>

\* The loops over i < j are over when i has no j left
PairsDone(pair) == pair[1] + 1 >= ObjectCount

NextPair(pair) ==
    IF pair[2] + 1 < ObjectCount THEN <<pair[1], pair[2] + 1>>
    ELSE <<pair[1] + 1, pair[1] + 2>>

\* Collisions.Initialize (), at the head of the collision detection
ClearRegistry ==
    /\ pc = "detect"
    /\ Collisions' = Initialize(Collisions)
    /\ cursor' = <<0, 1>>
    /\ phases' = Append(phases, "detect")
    /\ pc' = "pairs"
    /\ UNCHANGED <<scene, Body, clock, totals, h, loop, calls>>

\* Object[i]->Detect( Collisions, Object[j] )
DetectPair ==
    /\ pc = "pairs"
    /\ ~ PairsDone(cursor)
    /\ Collisions' = Detect(Collisions, Body, Object[cursor[1] + 1], Object[cursor[2] + 1])
    /\ cursor' = NextPair(cursor)
    /\ UNCHANGED <<scene, Body, clock, totals, pc, h, loop, phases, calls>>

\* The end of the detection loops
DetectionDone ==
    /\ pc = "pairs"
    /\ PairsDone(cursor)
    /\ pc' = After("detect")
    /\ UNCHANGED <<scene, Body, clock, totals, Collisions, h, cursor, loop, phases, calls>>

\* Collisions.UpdateDerivedQuantities( h ).  A read through a null Body_A
\* either faults, which ends the process in the middle of the step, or
\* returns.
UpdateContacts ==
    /\ pc = "update"
    /\ \E faults \in IF FirstUnbodied(Collisions) = 0 THEN {FALSE} ELSE BOOLEAN :
           IF faults
           THEN /\ Collisions' = UpdateDerivedQuantitiesUntil(Collisions, Body, h,
                                     FirstUnbodied(Collisions))
                /\ pc' = "fault"
           ELSE /\ Collisions' = ResolverUpdateDerivedQuantities(Collisions, Body, h)
                /\ pc' = After("update")
    /\ phases' = Append(phases, "update")
    /\ UNCHANGED <<scene, Body, clock, totals, h, cursor, loop, calls>>

\* A default that lets the loop of a resolver make one pass more
OnePassMore(owner) == 8 * owner.CollisionCount + 1

\* maxIterations = 8 * CollisionCount, the default of both resolvers
DefaultMaxIterations(owner) == 8 * owner.CollisionCount

\* Collisions.ImpulseTransfers( h ): entry
ImpulseTransfers ==
    /\ pc = "impulses"
    /\ phases' = Append(phases, "impulses")
    /\ entryCount' = Collisions.CollisionCount
    /\ iteration' = 0
    /\ IF Collisions.CollisionCount = 0
       THEN maxIterations' = 0 /\ pc' = After("impulses")
       ELSE maxIterations' = DefaultMaxIterations(Collisions) /\ pc' = "impulse loop"
    /\ UNCHANGED <<scene, Body, clock, totals, Collisions, h, cursor, calls>>

\* One iteration of the loop of ImpulseTransfers
ImpulseTransferStep ==
    /\ pc = "impulse loop"
    /\ iteration < maxIterations
    /\ FindLargestBouncingVelocity(Collisions, EPS) # 0
    /\ \E t \in {ImpulseIteration(Collisions, Body,
                                   FindLargestBouncingVelocity(Collisions, EPS), h)} :
           Body' = t.bodies /\ Collisions' = t.owner
    /\ iteration' = iteration + 1
    /\ UNCHANGED <<scene, clock, totals, pc, h, cursor, maxIterations, entryCount,
                   phases, calls>>

\* The loop of ImpulseTransfers ends: no contact found, or the cap reached
ImpulseTransfersReturn ==
    /\ pc = "impulse loop"
    /\ iteration >= maxIterations \/ FindLargestBouncingVelocity(Collisions, EPS) = 0
    /\ pc' = After("impulses")
    /\ UNCHANGED <<scene, Body, clock, totals, Collisions, h, cursor, loop, phases, calls>>

\* Collisions.PositionProjections (): entry
PositionProjections ==
    /\ pc = "projections"
    /\ phases' = Append(phases, "projections")
    /\ entryCount' = Collisions.CollisionCount
    /\ iteration' = 0
    /\ IF Collisions.CollisionCount = 0
       THEN maxIterations' = 0 /\ pc' = After("projections")
       ELSE maxIterations' = DefaultMaxIterations(Collisions) /\ pc' = "projection loop"
    /\ UNCHANGED <<scene, Body, clock, totals, Collisions, h, cursor, calls>>

\* One iteration of the loop of PositionProjections.  The projection of a
\* contact whose Body_A is null reads and writes through the null pointer,
\* which faults.
PositionProjectionStep ==
    /\ pc = "projection loop"
    /\ iteration < maxIterations
    /\ FindLargestPenetration(Collisions, EPS) # 0
    /\ IF Collisions.Collisions[FindLargestPenetration(Collisions, EPS)].Body_A = 0
       THEN pc' = "fault" /\ UNCHANGED <<Body, Collisions>>
       ELSE /\ \E t \in {ProjectionIteration(Collisions, Body,
                                             FindLargestPenetration(Collisions, EPS))} :
                  Body' = t.bodies /\ Collisions' = t.owner
            /\ UNCHANGED pc
    /\ iteration' = iteration + 1
    /\ UNCHANGED <<scene, clock, totals, h, cursor, maxIterations, entryCount,
                   phases, calls>>

\* The loop of PositionProjections ends: no contact found, or the cap reached
PositionProjectionsReturn ==
    /\ pc = "projection loop"
    /\ iteration >= maxIterations \/ FindLargestPenetration(Collisions, EPS) = 0
    /\ pc' = After("projections")
    /\ UNCHANGED <<scene, Body, clock, totals, Collisions, h, cursor, loop, phases, calls>>

\* A last loop that sums the totals again over the bodies it has cleared
ClearAndSum ==
    /\ pc = "clear"
    /\ Body' = [k \in 1..BodyCount |-> ClearAccumulators(Body[k])]
    /\ TotalKineticEnergy' = SumOver([k \in 1..BodyCount |-> Body[k].KineticEnergy], BodyCount)
    /\ TotalPotentialEnergy' = SumOver([k \in 1..BodyCount |-> Body[k].PotentialEnergy], BodyCount)
    /\ TotalLinearMomentum' = QSumOver([k \in 1..BodyCount |-> Body[k].LinearMomentum], BodyCount)
    /\ TotalAngularMomentum' =
           QSumOver([k \in 1..BodyCount |-> Body[k].TotalAngularMomentum], BodyCount)
    /\ phases' = Append(phases, "clear")
    /\ pc' = After("clear")
    /\ UNCHANGED <<scene, clock, Collisions, h, cursor, loop, calls>>

\* Prepare force and torque accumulators for the next time-step; SolveODE returns
ClearAll ==
    /\ pc = "clear"
    /\ Body' = [k \in 1..BodyCount |-> ClearAccumulators(Body[k])]
    /\ phases' = Append(phases, "clear")
    /\ pc' = After("clear")
    /\ UNCHANGED <<scene, clock, totals, Collisions, h, cursor, loop, calls>>

\* ---------------------------------------------------------------------------
\* Calls a user of the library makes between the steps
\* ---------------------------------------------------------------------------

\* Forces a caller applies
Forces == { SpatialVector(0, 0, 5000) }

\* States a caller sets: a moving body with a zero orientation quaternion, and
\* a spinning body with an orientation that is not a versor
States ==
    { [X |-> SpatialVector(0, 0, 3000), Q |-> QZero,
       V |-> SpatialVector(1000, 0, 0), W |-> QZero],
      [X |-> SpatialVector(0, 0, 500), Q |-> Quaternion(One, One, 0, 0),
       V |-> QZero, W |-> SpatialVector(0, 0, 2000)] }

\* Penetrations of the contacts a caller registers
Depths == { 50 }

MayCall == pc = "idle" /\ NoNaN(Body)

CallDeactivate(k) ==
    /\ MayCall
    /\ Body' = [Body EXCEPT ![k] = Deactivate(@)]
    /\ calls' = calls + 1
    /\ UNCHANGED <<scene, clock, totals, Collisions, pc, h, cursor, loop, phases>>

CallActivate(k) ==
    /\ MayCall
    /\ Body' = [Body EXCEPT ![k] = Activate(@)]
    /\ calls' = calls + 1
    /\ UNCHANGED <<scene, clock, totals, Collisions, pc, h, cursor, loop, phases>>

CallAddExternalForce(k, force, potentialEnergy) ==
    /\ MayCall
    /\ Body' = [Body EXCEPT ![k] = AddExternalForce(@, force, potentialEnergy)]
    /\ calls' = calls + 1
    /\ UNCHANGED <<scene, clock, totals, Collisions, pc, h, cursor, loop, phases>>

CallAddForce(k, force) ==
    /\ MayCall
    /\ Body' = [Body EXCEPT ![k] = AddForce(@, force, 0)]
    /\ calls' = calls + 1
    /\ UNCHANGED <<scene, clock, totals, Collisions, pc, h, cursor, loop, phases>>

CallSet_XQVW(k, state) ==
    /\ MayCall
    /\ Body' = [Body EXCEPT ![k] = Set_XQVW(@, state.X, state.Q, state.V, state.W)]
    /\ calls' = calls + 1
    /\ UNCHANGED <<scene, clock, totals, Collisions, pc, h, cursor, loop, phases>>

\* Collisions.Initialize ()
CallInitialize ==
    /\ MayCall
    /\ Collisions' = Initialize(Collisions)
    /\ calls' = calls + 1
    /\ UNCHANGED <<scene, Body, clock, totals, pc, h, cursor, loop, phases>>

\* Collisions.RegisterNewContact( body_A, body_B, position, normal, penetration )
CallRegisterNewContact(a, b, depth) ==
    /\ MayCall
    /\ a # b
    /\ Collisions' = RegisterNewContact(Collisions, a, b, Body[a].Position, Z_axis, depth)
    /\ calls' = calls + 1
    /\ UNCHANGED <<scene, Body, clock, totals, pc, h, cursor, loop, phases>>

\* A run of the main loop of a simulation: at most MaxSteps steps, and at most
\* MaxCalls calls between them
Next ==
    \/ TimeStepCount < MaxSteps /\ \E hh \in TimeSteps : AddGravity(hh)
    \/ Integrate
    \/ AdvanceClock
    \/ Aggregate
    \/ ClearRegistry
    \/ DetectPair
    \/ DetectionDone
    \/ UpdateContacts
    \/ ImpulseTransfers
    \/ ImpulseTransferStep
    \/ ImpulseTransfersReturn
    \/ PositionProjections
    \/ PositionProjectionStep
    \/ PositionProjectionsReturn
    \/ ClearAll
    \/ calls < MaxCalls /\ \E k \in 1..BodyCount : CallDeactivate(k)
    \/ calls < MaxCalls /\ \E k \in 1..BodyCount : CallActivate(k)
    \/ calls < MaxCalls /\ \E k \in 1..BodyCount, force \in Forces :
           CallAddExternalForce(k, force, 0)
    \/ calls < MaxCalls /\ \E k \in 1..BodyCount, force \in Forces :
           CallAddForce(k, force)
    \/ calls < MaxCalls /\ \E k \in 1..BodyCount, state \in States :
           CallSet_XQVW(k, state)
    \/ calls < MaxCalls /\ CallInitialize
    \/ calls < MaxCalls /\ \E a \in 1..BodyCount, b \in 0..BodyCount, depth \in Depths :
           CallRegisterNewContact(a, b, depth)

Spec == Init /\ [][Next]_vars

\* The detection loops of SolveODE from the pair (i, j) on, on a registry of
\* any capacity
RECURSIVE DetectFrom(_, _, _)
DetectFrom(owner, bodies, pair) ==
    IF PairsDone(pair) THEN owner
    ELSE DetectFrom(Detect(owner, bodies, Object[pair[1] + 1], Object[pair[2] + 1]),
                    bodies, NextPair(pair))

\* ---------------------------------------------------------------------------
\* WorldOfRigidBodies::Add and RemoveObjects: the population of a world
\* ---------------------------------------------------------------------------

\* A world in which no step has run: the geometries, the bodies, the gravity
\* and the registry given, the clock at 0 and the totals of InitializeODE
Fresh(objects, bodies, gravity, owner) ==
    /\ Object = objects
    /\ Body = bodies
    /\ Gravity = gravity
    /\ Time = 0
    /\ TimeStepCount = 0
    /\ TotalKineticEnergy =
           SumOver([k \in 1..Len(bodies) |-> bodies[k].KineticEnergy], Len(bodies))
    /\ TotalPotentialEnergy =
           SumOver([k \in 1..Len(bodies) |-> bodies[k].PotentialEnergy], Len(bodies))
    /\ TotalLinearMomentum =
           QSumOver([k \in 1..Len(bodies) |-> bodies[k].LinearMomentum], Len(bodies))
    /\ TotalAngularMomentum =
           QSumOver([k \in 1..Len(bodies) |-> bodies[k].TotalAngularMomentum], Len(bodies))
    /\ Collisions = owner
    /\ pc = "idle"
    /\ h = 0
    /\ cursor = <<0, 0>>
    /\ iteration = 0
    /\ maxIterations = 0
    /\ phases = << >>
    /\ entryCount = 0
    /\ calls = 0

\* The template parameter MaxObjects, the length of Object[]; 256 in the test
\* bed
MaxObjects == 3

\* Scenery a caller adds to a world
Scenery == { Ground, HalfSpace(Z_axis, One), TruePlane(Z_axis, 0) }

\* What a geometry pointer written past the end of Object[] leaves in the
\* member that follows the array, Gravity, whose first component is w: the
\* behaviour is undefined and the build decides
Clobbered(gravity) == { gravity } \cup { [gravity EXCEPT !.w = v] : v \in {1, NaN} }

\* The world after RemoveObjects ()
Unpopulated == Fresh(<< >>, << >>, Gravity_z, Initialize(CollisionResolver(4)))

\* WorldOfRigidBodies::Add( object ): Object[ ObjectCount++ ] = object, with no
\* test of ObjectCount against MaxObjects.  The model follows one write past
\* the end of the array.
Add(object) ==
    /\ pc = "idle"
    /\ ObjectCount <= MaxObjects
    /\ Object' = Append(Object, object)
    /\ Gravity' \in IF ObjectCount < MaxObjects THEN {Gravity} ELSE Clobbered(Gravity)
    /\ UNCHANGED <<Body, clock, totals, Collisions, pc, h, cursor, loop, phases, calls>>

\* WorldOfRigidBodies::RemoveObjects (): ObjectCount = 0
RemoveObjects ==
    /\ pc = "idle"
    /\ Object # << >>
    /\ Object' = << >>
    /\ UNCHANGED <<Body, Gravity, clock, totals, Collisions, pc, h, cursor, loop,
                   phases, calls>>

PopulationNext ==
    \/ \E object \in Scenery : Add(object)
    \/ RemoveObjects

PopulationSpec == Unpopulated /\ [][PopulationNext]_vars

\* ---------------------------------------------------------------------------
\* The mutators of a rigid body, called between the steps of a world that
\* holds one ball and no scenery, in which there is no gravity
\* ---------------------------------------------------------------------------

\* Number of steps of a run of the world of one ball
MaxBodySteps == 2

\* Number of calls made on the ball between the steps
MaxBodyCalls == 2

\* Masses a caller sets: none, a finite one whose inverse is not a whole
\* number of thousandths, the infinite one and one beyond it
Masses == { 0, 3 * One, InfiniteMass, InfiniteMass + One }

\* Potential energies a caller adds with an external force: none, which is
\* the default, and some
PotentialEnergies == { 0, One \div 4 }

AddForceAtBodyPoint(b, bodyPoint, force, potentialEnergy) ==
    AddForceAtPoint(b, TApply(b.ToWorld, bodyPoint), force, potentialEnergy)

CallSetupMass(k, mass) ==
    /\ MayCall
    /\ Body' = [Body EXCEPT ![k] = SetupMass(@, mass)]
    /\ calls' = calls + 1
    /\ UNCHANGED <<scene, clock, totals, Collisions, pc, h, cursor, loop, phases>>

CallSetCanBeDeactivated(k, flag) ==
    /\ MayCall
    /\ Body' = [Body EXCEPT ![k] = SetCanBeDeactivated(@, flag)]
    /\ calls' = calls + 1
    /\ UNCHANGED <<scene, clock, totals, Collisions, pc, h, cursor, loop, phases>>

CallAddForceAtPoint(k, worldPoint, force) ==
    /\ MayCall
    /\ Body' = [Body EXCEPT ![k] = AddForceAtPoint(@, worldPoint, force, 0)]
    /\ calls' = calls + 1
    /\ UNCHANGED <<scene, clock, totals, Collisions, pc, h, cursor, loop, phases>>

CallAddForceAtBodyPoint(k, bodyPoint, force) ==
    /\ MayCall
    /\ Body' = [Body EXCEPT ![k] = AddForceAtBodyPoint(@, bodyPoint, force, 0)]
    /\ calls' = calls + 1
    /\ UNCHANGED <<scene, clock, totals, Collisions, pc, h, cursor, loop, phases>>

CallAddTorque(k, torque) ==
    /\ MayCall
    /\ Body' = [Body EXCEPT ![k] = AddTorque(@, torque)]
    /\ calls' = calls + 1
    /\ UNCHANGED <<scene, clock, totals, Collisions, pc, h, cursor, loop, phases>>

\* The world of one ball: a ball that moves and spins, as constructed or put
\* to rest before it is added; then InitializeODE ()
LoneBall ==
    \E atRest \in BOOLEAN :
        Fresh(<<Sphere(1, One)>>,
              InitializeODE(<<Construct(Arguments(SpatialVector(0, 0, 5000), QOne,
                                                  SpatialVector(1000, 0, 0),
                                                  SpatialVector(0, 0, 2000),
                                                  One, QZero, One, atRest))>>),
              QZero,
              Initialize(CollisionResolver(4)))

\* A run of the main loop on the world of one ball: steps of length 1, in
\* which the detection has no pair of geometries to look at and the resolvers
\* no contact, and calls of the mutators of the ball between them
BodyNext ==
    \/ TimeStepCount < MaxBodySteps /\ AddGravity(One)
    \/ Integrate
    \/ AdvanceClock
    \/ Aggregate
    \/ ClearRegistry
    \/ DetectionDone
    \/ UpdateContacts
    \/ ImpulseTransfers
    \/ PositionProjections
    \/ ClearAll
    \/ calls < MaxBodyCalls /\ CallDeactivate(1)
    \/ calls < MaxBodyCalls /\ CallActivate(1)
    \/ calls < MaxBodyCalls /\ \E flag \in BOOLEAN : CallSetCanBeDeactivated(1, flag)
    \/ calls < MaxBodyCalls /\ \E mass \in Masses : CallSetupMass(1, mass)
    \/ calls < MaxBodyCalls /\ \E force \in Forces, energy \in PotentialEnergies :
           CallAddExternalForce(1, force, energy)
    \/ calls < MaxBodyCalls /\ \E force \in Forces : CallAddForce(1, force)
    \/ calls < MaxBodyCalls /\ \E force \in Forces :
           CallAddForceAtPoint(1, SpatialVector(One, 0, 0), force)
    \/ calls < MaxBodyCalls /\ \E force \in Forces :
           CallAddForceAtBodyPoint(1, SpatialVector(One, 0, 0), force)
    \/ calls < MaxBodyCalls /\ CallAddTorque(1, SpatialVector(0, 0, 2000))

BodySpec == LoneBall /\ [][BodyNext]_vars

\* ---------------------------------------------------------------------------
\* Worlds without gravity, scenery and damping, whose bodies stay apart
\* ---------------------------------------------------------------------------

\* Number of steps of a run of a world without gravity
MaxFreeSteps == 3

\* The kinetic energy a world without forces gains or loses in a step, per
\* unit of time: the orientation is integrated to the first order in the
\* time step, and with it the inertia the energy is derived from
EnergyDrift == One \div 2

\* Two balls of different mass, far apart, that move and spin; a box that
\* moves and spins about an axis that is not a principal one; a slow ball
\* that can be deactivated
FreeWorlds ==
    { <<<<Sphere(1, One), Sphere(2, One)>>,
        <<Ball(SpatialVector(0, 0, 5000), QOne, SpatialVector(1000, 500, 0),
               SpatialVector(0, 0, 2000), One, One),
          Ball(SpatialVector(10000, 0, 5000), QOne, SpatialVector(-1000, 0, 0),
               SpatialVector(3000, 0, 0), One, 2 * One)>>>>,
      <<<<Cuboid(1, SpatialVector(One, One, One \div 2))>>,
        <<Box(SpatialVector(0, 0, 5000), QOne, SpatialVector(0, 1000, 0),
              SpatialVector(1000, 0, 2000), SpatialVector(One, One, One \div 2), One)>>>>,
      <<<<Sphere(1, One)>>,
        <<SetCanBeDeactivated(
              Ball(SpatialVector(0, 0, 5000), QOne, SpatialVector(100, 0, 0), QZero,
                   One, One), TRUE)>>>> }

Free ==
    \E world \in FreeWorlds :
        Fresh(world[1], InitializeODE(world[2]), QZero, Initialize(CollisionResolver(4)))

\* A run of the main loop on a world without gravity: the detection finds no
\* contact and the resolvers have none to resolve
FreeNext ==
    \/ TimeStepCount < MaxFreeSteps /\ \E hh \in TimeSteps : AddGravity(hh)
    \/ Integrate
    \/ AdvanceClock
    \/ Aggregate
    \/ ClearRegistry
    \/ DetectPair
    \/ DetectionDone
    \/ UpdateContacts
    \/ ImpulseTransfers
    \/ PositionProjections
    \/ ClearAll

FreeSpec == Free /\ [][FreeNext]_vars

\* ---------------------------------------------------------------------------
\* Free fall: one ball under gravity in a world without scenery.  The unit
\* of length of this world is the millimetre and its unit of time the
\* hundredth of a second, in which the time step 0.01 s is One, the
\* acceleration 9.81 m/s^2 is 0.981 and the height 10 m is 10000, so that no
\* product of a step is rounded.  The ball has the radius One, on which its
\* fall does not depend.
\* ---------------------------------------------------------------------------

\* Number of steps of the fall
FallSteps == 100

Fall ==
    Fresh(<<Sphere(1, One)>>,
          InitializeODE(<<Ball(SpatialVector(0, 10000 * One, 0), QOne, QZero, QZero,
                               One, One)>>),
          SpatialVector(0, -981, 0),
          Initialize(CollisionResolver(4)))

\* A run of the main loop on the falling ball, in steps of 0.01 s
FallNext ==
    \/ TimeStepCount < FallSteps /\ AddGravity(One)
    \/ Integrate
    \/ AdvanceClock
    \/ Aggregate
    \/ ClearRegistry
    \/ DetectionDone
    \/ UpdateContacts
    \/ ImpulseTransfers
    \/ PositionProjections
    \/ ClearAll

FallSpec == Fall /\ [][FallNext]_vars

\* ---------------------------------------------------------------------------
\* Collision detection on its own: Detect called on a pair of geometries
\* that a caller has posed
\* ---------------------------------------------------------------------------

\* Number of calls of Detect on the pair
MaxDetectCalls == 2

\* A ball of either radius over, on and in a half-space, whose normal is the
\* z axis or leans to the y axis and whose boundary passes through the
\* origin or not
SpherePoses ==
    { <<<<Sphere(1, radius), HalfSpace(direction, offset)>>,
        <<Ball(SpatialVector(0, 0, height), QOne, QZero, QZero, radius, One)>>>> :
          height \in { One \div 2, One - 1, One, One + 1, 2 * One },
          radius \in { One \div 2, One },
          direction \in { Z_axis, SpatialVector(0, 600, 800) },
          offset \in { 0, One \div 10 } }

\* Two cubes of side 1: with the axes of the world, the second placed 0.5,
\* 0.9 or 1.1 from the first along each axis; and with an edge of the first,
\* turned about the z axis, across an edge of the second, turned about the y
\* axis
CubePoses ==
    { <<<<Cuboid(1, SpatialVector(One \div 2, One \div 2, One \div 2)),
          Cuboid(2, SpatialVector(One \div 2, One \div 2, One \div 2))>>,
        <<Box(QZero, QOne, QZero, QZero,
              SpatialVector(One \div 2, One \div 2, One \div 2), One),
          Box(SpatialVector(dx, dy, dz), QOne, QZero, QZero,
              SpatialVector(One \div 2, One \div 2, One \div 2), One)>>>> :
          dx \in { 500, 900, 1100 }, dy \in { 500, 900, 1100 },
          dz \in { 500, 900, 1100 } }
    \cup
    { <<<<Cuboid(1, SpatialVector(One \div 2, One \div 2, One \div 2)),
          Cuboid(2, SpatialVector(One \div 2, One \div 2, One \div 2))>>,
        <<Box(QZero, Quaternion(924, 0, 0, 383), QZero, QZero,
              SpatialVector(One \div 2, One \div 2, One \div 2), One),
          Box(SpatialVector(1300, 0, 0), Quaternion(924, 0, 383, 0), QZero, QZero,
              SpatialVector(One \div 2, One \div 2, One \div 2), One)>>>> }

\* Two balls, the second of either radius: with the same centre, overlapping
\* along an axis and askew, touching, and apart
BallPoses ==
    { <<<<Sphere(1, One), Sphere(2, radius)>>,
        <<Ball(SpatialVector(0, 0, 3 * One), QOne, QZero, QZero, One, One),
          Ball(QAdd(SpatialVector(0, 0, 3 * One), displacement), QOne, QZero, QZero,
               radius, One)>>>> :
          radius \in { One \div 2, One },
          displacement \in { QZero, SpatialVector(1200, 0, 0), SpatialVector(0, -600, 800),
                             SpatialVector(-300, 400, 1200), SpatialVector(2 * One, 0, 0),
                             SpatialVector(0, 0, -3 * One) } }

\* Centres of a ball of radius 0.5 about a cube of side 1 at the origin: off a
\* face, an edge and a vertex, on a face, inside the cube, at its centre, and
\* out of reach
Centres ==
    { SpatialVector(900, 0, 0), SpatialVector(0, -800, 800), SpatialVector(700, 700, -700),
      SpatialVector(0, 0, 500), SpatialVector(200, -100, 0), QZero,
      SpatialVector(0, 950, 950), SpatialVector(2 * One, 0, 0) }

\* A cube and a ball, added in either order; the cube with the axes of the
\* world or turned about the z axis
BoxBallPoses ==
    { <<<<Cuboid(1, SpatialVector(One \div 2, One \div 2, One \div 2)),
          Sphere(2, One \div 2)>>,
        <<Box(QZero, orientation, QZero, QZero,
              SpatialVector(One \div 2, One \div 2, One \div 2), One),
          Ball(centre, QOne, QZero, QZero, One \div 2, One)>>>> :
          centre \in Centres, orientation \in { QOne, Quaternion(924, 0, 0, 383) } }
    \cup
    { <<<<Sphere(1, One \div 2),
          Cuboid(2, SpatialVector(One \div 2, One \div 2, One \div 2))>>,
        <<Ball(centre, QOne, QZero, QZero, One \div 2, One),
          Box(QZero, QOne, QZero, QZero,
              SpatialVector(One \div 2, One \div 2, One \div 2), One)>>>> :
          centre \in Centres }

Posed ==
    \E pose \in SpherePoses \cup CubePoses \cup BallPoses \cup BoxBallPoses :
        Fresh(pose[1], InitializeODE(pose[2]), QZero, Initialize(CollisionResolver(4)))

\* Object[i]->Detect( Collisions, Object[j] ), called by a test
CallDetect(i, j) ==
    /\ pc = "idle"
    /\ Collisions' = Detect(Collisions, Body, Object[i], Object[j])
    /\ calls' = calls + 1
    /\ UNCHANGED <<scene, Body, clock, totals, pc, h, cursor, loop, phases>>

DetectionNext == calls < MaxDetectCalls /\ CallDetect(1, 2)

DetectionSpec == Posed /\ [][DetectionNext]_vars

\* ---------------------------------------------------------------------------
\* Worlds with spheres of the scenery: a Sphere whose Body was left null, as
\* its constructor sets it, is at the origin and is skipped by the loops
\* over the bodies
\* ---------------------------------------------------------------------------

\* Number of steps of a run
MaxSceneSteps == 2

\* A ball that falls on a sphere of the scenery, added after or before it;
\* two spheres of the scenery and the ball; a sphere of the scenery that
\* reaches into the ground, and the ball; the ground, a plane and the ball
Scenes ==
    { <<Sphere(0, One), Sphere(1, One)>>,
      <<Sphere(1, One), Sphere(0, One)>>,
      <<Sphere(0, One), Sphere(0, One \div 2), Sphere(1, One)>>,
      <<Sphere(0, One), Ground, Sphere(1, One)>>,
      <<Ground, TruePlane(Z_axis, 0), Sphere(1, One)>> }

Staged ==
    \E objects \in Scenes, height \in { 1500, 3 * One } :
        Fresh(objects,
              InitializeODE(<<Ball(SpatialVector(0, 0, height), QOne,
                                   SpatialVector(0, 0, -1000), QZero, One, One)>>),
              QZero,
              Initialize(CollisionResolver(4)))

SceneNext ==
    \/ TimeStepCount < MaxSceneSteps /\ \E hh \in TimeSteps : AddGravity(hh)
    \/ Integrate
    \/ AdvanceClock
    \/ Aggregate
    \/ ClearRegistry
    \/ DetectPair
    \/ DetectionDone
    \/ UpdateContacts
    \/ ImpulseTransfers
    \/ ImpulseTransferStep
    \/ ImpulseTransfersReturn
    \/ PositionProjections
    \/ PositionProjectionStep
    \/ PositionProjectionsReturn
    \/ ClearAll

SceneSpec == Staged /\ [][SceneNext]_vars

\* ---------------------------------------------------------------------------
\* The searches of the registry on their own: FindLargestBouncingVelocity and
\* FindLargestPenetration called on a registry that holds contacts
\* ---------------------------------------------------------------------------

\* Number of searches of a run
MaxSearchCalls == 2

\* The length of the registry
SearchLength == 3

\* The bouncing velocity and the penetration of a contact: below, at, just
\* above and well above the default eps; a bouncing velocity may be not finite
Found_values ==
    { <<0, 2 * EPS>>, <<EPS, EPS + 1>>, <<EPS + 1, EPS>>, <<2 * EPS, 0 - EPS>>,
      <<NaN, 2 * EPS>> }

\* The eps of a search: the default, and 0
Thresholds == { EPS, 0 }

\* Registries of CollisionCount contacts; the slots past CollisionCount hold
\* contacts of an earlier detection
Registries ==
    { [CollisionResolver(SearchLength) EXCEPT
          !.Collisions = [k \in 1..SearchLength |->
                             [Collision EXCEPT !.Body_A = 1,
                                               !.BouncingVelocity = values[k][1],
                                               !.Penetration = values[k][2]]],
          !.CollisionCount = count,
          !.NextFree = count,
          !.FreeCount = SearchLength - count] :
          values \in [1..SearchLength -> Found_values], count \in 0..SearchLength }

Searchable ==
    \E owner \in Registries :
        Fresh(<<Sphere(1, One)>>,
              InitializeODE(<<Ball(QZero, QOne, QZero, QZero, One, One)>>),
              QZero, owner)

\* Collisions.FindLargestBouncingVelocity( eps ), called by a test
CallFindLargestBouncingVelocity(eps) ==
    /\ pc = "idle"
    /\ Collisions' = [Collisions EXCEPT !.Found =
                          [search |-> "bouncing velocity", eps |-> eps,
                           contact |-> FindLargestBouncingVelocity(Collisions, eps)]]
    /\ calls' = calls + 1
    /\ UNCHANGED <<scene, Body, clock, totals, pc, h, cursor, loop, phases>>

\* Collisions.FindLargestPenetration( eps ), called by a test
CallFindLargestPenetration(eps) ==
    /\ pc = "idle"
    /\ Collisions' = [Collisions EXCEPT !.Found =
                          [search |-> "penetration", eps |-> eps,
                           contact |-> FindLargestPenetration(Collisions, eps)]]
    /\ calls' = calls + 1
    /\ UNCHANGED <<scene, Body, clock, totals, pc, h, cursor, loop, phases>>

SearchNext ==
    \/ calls < MaxSearchCalls /\ \E eps \in Thresholds : CallFindLargestBouncingVelocity(eps)
    \/ calls < MaxSearchCalls /\ \E eps \in Thresholds : CallFindLargestPenetration(eps)

SearchSpec == Searchable /\ [][SearchNext]_vars

\* ---------------------------------------------------------------------------
\* Properties
\* ---------------------------------------------------------------------------

\* C1: whatever Initialize, RegisterNewContact and step operations have run,
\* the contact count of the registry is the number of RegisterNewContact calls
\* that returned 1 since the registry was last cleared, and it never exceeds
\* MaxCollisionCount, the capacity given to the constructor.
C1_CountOfRegistry ==
    /\ Collisions.CollisionCount =
           Cardinality({n \in 1..Len(Collisions.Returned) : Collisions.Returned[n] = 1})
    /\ Collisions.CollisionCount <= Collisions.MaxCollisionCount
    /\ Collisions.CollisionCount + Collisions.FreeCount = Collisions.MaxCollisionCount

\* C1 witness: a registry filled by the detection of a step, on which a
\* further call of RegisterNewContact has returned 0
C1_Witness ==
    /\ Collisions.CollisionCount = Collisions.MaxCollisionCount
    /\ TimeStepCount > 0
    /\ Len(Collisions.Returned) > Collisions.MaxCollisionCount
    /\ Collisions.Returned[Len(Collisions.Returned)] = 0

\* Capacity of a registry that holds every contact the detection of a world
\* of the model produces
Roomy == 16

\* The contacts the scan of all pairs (i, j), i < j, in lexicographic order
\* produces from the bodies as they are, on a registry with room for all
Produced == DetectFrom(Initialize(CollisionResolver(Roomy)), Body, <<0, 1>>)

\* The pairs (i, j) the detection loops have still to visit
RECURSIVE PairsLeft(_)
PairsLeft(pair) == IF PairsDone(pair) THEN 0 ELSE 1 + PairsLeft(NextPair(pair))

\* How far a running SolveODE is from its return: the statements it has still
\* to reach, and within a loop the passes the loop may still make.  It is 0
\* when no SolveODE is running.
Rank ==
    LET Stage(p) ==
            CASE p = "integrate"       -> 11
              [] p = "clock"           -> 10
              [] p = "aggregates"      -> 9
              [] p = "detect"          -> 8
              [] p = "pairs"           -> 7
              [] p = "update"          -> 6
              [] p = "impulses"        -> 5
              [] p = "impulse loop"    -> 4
              [] p = "projections"     -> 3
              [] p = "projection loop" -> 2
              [] p = "clear"           -> 1
              [] OTHER                 -> 0
        Left ==
            CASE pc = "pairs" -> PairsLeft(cursor)
              [] pc \in {"impulse loop", "projection loop"} -> maxIterations - iteration
              [] OTHER -> 0
    IN  Stage(pc) * (8 * Roomy + 1) + Left

\* C2: when the registry becomes full during the detection of a step, every
\* further registration attempt of the step returns 0 and changes nothing in
\* the registry, so that the contacts retained are the first MaxCollisionCount
\* contacts the scan of the pairs (i, j), i < j, in lexicographic order
\* produces; the step still runs its resolution phases and returns: each of
\* its statements brings it nearer to the return, which it reaches after the
\* impulse transfers, the position projections and the clearing.
C2_ArenaFull ==
    [][ LET Registered(c) ==
                <<c.Body_A, c.Body_B, c.Position, c.Normal, c.Penetration>>
            Full == ~ HasSpaceForMoreContacts(Collisions)
            Refused ==
                \A a \in 1..BodyCount, b \in 0..BodyCount, depth \in Depths :
                    RegisterNewContact(Collisions, a, b, Body[a].Position, Z_axis, depth)
                        = [Collisions EXCEPT !.Returned = Append(@, 0)]
            Retained ==
                /\ Collisions.CollisionCount =
                       IF Produced.CollisionCount < Collisions.MaxCollisionCount
                       THEN Produced.CollisionCount
                       ELSE Collisions.MaxCollisionCount
                /\ \A k \in 1..Collisions.CollisionCount :
                       Registered(Collisions.Collisions[k])
                           = Registered(Produced.Collisions[k])
        IN  /\ Full => Refused
            /\ pc = "pairs" /\ Full => Collisions' = Collisions
            /\ pc = "update" => Retained
            /\ pc # "idle" /\ Full =>
                  /\ Rank' < Rank
                  /\ Rank' >= 0
                  /\ pc' = "idle" =>
                         SubSeq(phases', Len(phases') - 2, Len(phases'))
                             = <<"impulses", "projections", "clear">> ]_vars

\* C2 witness: the detection of a step is over with a full registry, and the
\* scan has produced more contacts than the registry holds
C2_Witness ==
    /\ pc = "update"
    /\ ~ HasSpaceForMoreContacts(Collisions)
    /\ Produced.CollisionCount > Collisions.MaxCollisionCount
    /\ Produced.CollisionCount < Roomy

\* C3: called with the default arguments, ImpulseTransfers and
\* PositionProjections each make at most 8 * N passes of their loop, N being
\* the number of contacts in the registry at the entry, and then return, even
\* if a contact still has a bouncing velocity or a penetration above the
\* tolerance of 0.01; with N = 0 they return without doing anything.
C3_IterationCap ==
    [][ /\ pc \in {"impulses", "projections"} =>
              /\ entryCount' = Collisions.CollisionCount
              /\ iteration' = 0
              /\ Collisions.CollisionCount = 0 =>
                     pc' = After(pc) /\ Body' = Body /\ Collisions' = Collisions
        /\ pc \in {"impulse loop", "projection loop"} =>
              /\ entryCount = Collisions.CollisionCount
              /\ iteration <= 8 * entryCount
              /\ \/ pc' = pc /\ iteration' = iteration + 1 /\ iteration' <= 8 * entryCount
                 \/ /\ pc' = After(IF pc = "impulse loop" THEN "impulses" ELSE "projections")
                    /\ Body' = Body
                    /\ Collisions' = Collisions
              /\ iteration >= 8 * entryCount => pc' # pc
              /\ Rank' < Rank ]_vars

\* C3 witness: the loop of PositionProjections has made 8 * N passes, and a
\* contact of the registry still has a penetration above the tolerance
C3_Witness ==
    /\ pc = "projection loop"
    /\ entryCount > 0
    /\ iteration = 8 * entryCount
    /\ FindLargestPenetration(Collisions, EPS) # 0

\* C4: every step executes its phases exactly once each and in this order:
\* add gravity to the bodies, integrate the bodies, advance the clock,
\* recompute the aggregates, clear the registry and detect over all pairs,
\* update the derived quantities of the contacts, impulse transfers, position
\* projections, clear the force and torque accumulators.  The phases a step
\* has executed are at any moment the first of this list, the statement the
\* step is at is the next of the list or a loop of the phase last entered, and
\* a step that has returned has executed all of them.
C4_PhaseOrder ==
    LET Order == << "gravity", "integrate", "clock", "aggregates", "detect", "update",
                    "impulses", "projections", "clear" >>
        Last == phases[Len(phases)]
    IN  /\ Len(phases) <= Len(Order)
        /\ phases = SubSeq(Order, 1, Len(phases))
        /\ pc = "idle" => phases = IF TimeStepCount = 0 THEN << >> ELSE Order
        /\ pc # "idle" =>
              /\ phases # << >>
              /\ \/ pc = Order[Len(phases) + 1]
                 \/ pc = "pairs" /\ Last = "detect"
                 \/ pc = "impulse loop" /\ Last = "impulses"
                 \/ pc = "projection loop" /\ Last = "projections"

\* C4 witness: the second step of a run has returned, with contacts in the
\* registry that its resolvers have worked on
C4_Witness ==
    /\ pc = "idle"
    /\ TimeStepCount = 2
    /\ Len(phases) = 9
    /\ Collisions.CollisionCount > 0

\* C5: one impulse transfer on a contact whose two bodies both exist and have
\* a finite mass changes the linear momentum of body A by +J and that of body
\* B by -J, J being one and the same impulse in the world frame, so that
\* P_A + P_B is the same before and after the transfer.
C5_ImpulseSymmetry ==
    [][ pc = "impulse loop" /\ pc' = pc =>
          LET contact == Collisions.Collisions[FindLargestBouncingVelocity(Collisions, EPS)]
              A == contact.Body_A
              B == contact.Body_B
              J == TApply(contact.ToWorld,
                          GetImpulse(contact, ActivateInactiveBodies(contact, Body)))
          IN  B # 0 /\ IsFiniteMass(Body[A]) /\ IsFiniteMass(Body[B]) =>
                /\ Body'[A].LinearMomentum = QAdd(Body[A].LinearMomentum, J)
                /\ Body'[B].LinearMomentum = QSub(Body[B].LinearMomentum, J)
                /\ QAdd(Body'[A].LinearMomentum, Body'[B].LinearMomentum)
                       = QAdd(Body[A].LinearMomentum, Body[B].LinearMomentum) ]_vars

\* C5 witness: the first impulse transfer of a step has acted on the only
\* contact of the registry, a contact of two bodies of finite mass with a
\* bouncing velocity above the tolerance; the momenta of the two bodies still
\* add up to the total the step has found before the detection
C5_Witness ==
    /\ pc = "impulse loop"
    /\ iteration = 1
    /\ Collisions.CollisionCount = 1
    /\ Collisions.Collisions[1].Body_B # 0
    /\ IsFiniteMass(Body[Collisions.Collisions[1].Body_A])
    /\ IsFiniteMass(Body[Collisions.Collisions[1].Body_B])
    /\ Body[Collisions.Collisions[1].Body_A].LinearMomentum
           # QScale(Body[Collisions.Collisions[1].Body_A].Velocity,
                    Mass(Body[Collisions.Collisions[1].Body_A]))
    /\ QAdd(Body[1].LinearMomentum, Body[2].LinearMomentum) = TotalLinearMomentum

C7_InactiveStaysPut ==
    [][ \A k \in 1..BodyCount :
          /\ pc # "idle" \/ pc' # "idle"
          /\ ~ Body[k].IsActive
          /\ ~ Body'[k].IsActive
          /\ Body[k].Force = QZero
          /\ Body[k].Torque = QZero
          => /\ Body'[k].Position = Body[k].Position
             /\ Body'[k].Orientation = Body[k].Orientation ]_vars

\* A body with zero P, L, V, Omega, F and tau
Motionless(b) ==
    /\ b.LinearMomentum = QZero
    /\ b.AngularMomentum = QZero
    /\ b.Velocity = QZero
    /\ b.AngularVelocity = QZero
    /\ b.Force = QZero
    /\ b.Torque = QZero

C9_TransformOfState ==
    LET Spatial(q) == <<q.x, q.y, q.z>>
    IN  pc = "idle" /\ TimeStepCount > 0 =>
            \A k \in 1..BodyCount :
                \/ BodyIsNaN(Body[k])
                \/ /\ Body[k].ToWorld =
                          SetFromOrientationAndPosition(Body[k].Orientation,
                                                        Body[k].Position)
                   /\ Spatial(Column(Body[k].ToWorld, 3)) = Spatial(Body[k].Position)

\* The distance from 1 within which the norm of a normalized quaternion is
\* found, its components, the factor it was scaled by and the norm itself
\* being known to three decimal places
NormTolerance == One \div 200

\* C10: when a step has returned, the orientation of every body has norm 1:
\* every path of the step that modifies the orientation, the integration and
\* the orientation jolt of the position projection, normalizes it again
\* before the step returns, a zero quaternion being replaced by the identity.
C10_OrientationIsVersor ==
    pc = "idle" /\ TimeStepCount > 0 =>
        \A k \in 1..BodyCount :
            /\ ~ QIsNaN(Body[k].Orientation)
            /\ Abs(Norm(Body[k].Orientation) - One) <= NormTolerance

\* C11: adding a geometry to a world that holds MaxObjects geometries does not
\* store the geometry, and the number of geometries held never exceeds
\* MaxObjects.
C11_CapacityKept ==
    [][ /\ ObjectCount' <= MaxObjects
        /\ ObjectCount = MaxObjects /\ Object' # << >> => Object' = Object ]_vars

\* C12: no operation divides by zero.  Where the impulse of the contact found
\* is about to be computed, the inverse reduced mass it is divided by is not
\* 0; where the contact found is about to be projected, the total inverse
\* inertia the movements are divided by is not 0; where two spheres that
\* overlap are about to be registered, the distance of their centres, by
\* which the normal is divided, is not 0.
C12_NoDivisionByZero ==
    LET distance(A, B) == ImNorm(QSub(Position(Body, A), Position(Body, B)))
        Overlap(A, B) ==
            /\ A.Class = "Sphere"
            /\ B.Class = "Sphere"
            /\ HasSpaceForMoreContacts(Collisions)
            /\ distance(A, B) < A.Radius + B.Radius
    IN  /\ pc = "impulse loop" /\ iteration < maxIterations
              /\ FindLargestBouncingVelocity(Collisions, EPS) # 0
           => InverseReducedMass(
                  Collisions.Collisions[FindLargestBouncingVelocity(Collisions, EPS)],
                  Body) # 0
        /\ pc = "projection loop" /\ iteration < maxIterations
              /\ FindLargestPenetration(Collisions, EPS) # 0
           => InverseTotalInertia(
                  Collisions.Collisions[FindLargestPenetration(Collisions, EPS)],
                  Body) # 0
        /\ pc = "pairs" /\ ~ PairsDone(cursor)
              /\ Overlap(Object[cursor[1] + 1], Object[cursor[2] + 1])
           => distance(Object[cursor[1] + 1], Object[cursor[2] + 1]) # 0

\* C13, as stated: a call that sets the mass 0 leaves the body immovable
\* (inverse mass 0, IsFiniteMass false), a call that sets a mass of at least
\* 1e30 leaves it massless, and a call that sets any other positive mass m
\* leaves it with the inverse mass 1/m.
C13_ZeroMassImmovable ==
    [][ \A mass \in Masses :
            CallSetupMass(1, mass) =>
                /\ mass = 0 => Body'[1].InverseMass = 0 /\ ~ IsFiniteMass(Body'[1])
                /\ mass >= InfiniteMass => Mass(Body'[1]) = 0
                /\ 0 < mass /\ mass < InfiniteMass =>
                       /\ Body'[1].InverseMass * mass <= One * One
                       /\ One * One < (Body'[1].InverseMass + 1) * mass ]_vars

\* C13, amended: a call that sets the mass 0 leaves the body massless (inverse
\* mass 1e30, Mass () 0, IsFiniteMass true), a call that sets a mass of at
\* least 1e30 leaves it immovable (inverse mass 0, Mass () 1e30, IsFiniteMass
\* false), and a call that sets any other positive mass m leaves it with the
\* inverse mass 1/m, to the last decimal place kept.
C13_ZeroMassMassless ==
    [][ \A mass \in Masses :
            CallSetupMass(1, mass) =>
                /\ mass = 0 =>
                       /\ Body'[1].InverseMass = InfiniteMass
                       /\ Mass(Body'[1]) = 0
                       /\ IsFiniteMass(Body'[1])
                /\ mass >= InfiniteMass =>
                       /\ Body'[1].InverseMass = 0
                       /\ Mass(Body'[1]) = InfiniteMass
                       /\ ~ IsFiniteMass(Body'[1])
                /\ 0 < mass /\ mass < InfiniteMass =>
                       /\ Body'[1].InverseMass * mass <= One * One
                       /\ One * One < (Body'[1].InverseMass + 1) * mass ]_vars

\* The mass of the ball, constructed with the mass 1, was set to 0
C13_Witness ==
    /\ calls > 0
    /\ Body[1].InverseMass = InfiniteMass
    /\ Body[1].KineticEnergyThreshold = 0

\* C14: whenever the ball, inactive, becomes active, by a call or a step, its
\* average kinetic energy is then 0.6 times its mass, twice the threshold
\* under which it is deactivated.
C14_WakingReseedsEnergy ==
    [][ ~ Body[1].IsActive /\ Body'[1].IsActive =>
            /\ Body'[1].AverageKineticEnergy = FMul(600, Mass(Body'[1]))
            /\ Body'[1].AverageKineticEnergy = 2 * Body'[1].KineticEnergyThreshold ]_vars

\* C15: a call of AddExternalForce adds the force to the force accumulator and
\* the potential energy to the potential-energy accumulator of the ball and
\* leaves its active flag as it was; after a call of AddForce, of
\* AddForceAtPoint or of AddForceAtBodyPoint the ball is active.
C15_OnlyInternalForcesWake ==
    [][ \A force \in Forces :
            /\ \A energy \in PotentialEnergies :
                   CallAddExternalForce(1, force, energy) =>
                       /\ Body'[1].Force = QAdd(Body[1].Force, force)
                       /\ Body'[1].PotentialEnergy = Body[1].PotentialEnergy + energy
                       /\ Body'[1].IsActive = Body[1].IsActive
            /\ CallAddForce(1, force) => Body'[1].IsActive
            /\ CallAddForceAtPoint(1, SpatialVector(One, 0, 0), force) => Body'[1].IsActive
            /\ CallAddForceAtBodyPoint(1, SpatialVector(One, 0, 0), force) =>
                   Body'[1].IsActive ]_vars

\* An external force and a potential energy were added to the inactive ball,
\* and the ball is inactive
C15_Witness ==
    /\ ~ Body[1].IsActive
    /\ Body[1].Force = SpatialVector(0, 0, 5000)
    /\ Body[1].PotentialEnergy = One \div 4

\* C16, as stated: in a world without gravity, contacts and damping, no step
\* changes the linear or the angular momentum of a body, and the totals of
\* the world that a step reports are those reported before: the linear and
\* the angular momentum exactly, the kinetic energy within EnergyDrift times
\* the length of the step.
C16_MomentaConserved ==
    [][ /\ \A k \in 1..BodyCount :
               /\ ~ Body[k].KineticEnergyDamping
               /\ Body'[k].LinearMomentum = Body[k].LinearMomentum
               /\ Body'[k].AngularMomentum = Body[k].AngularMomentum
        /\ Gravity = QZero /\ Collisions'.CollisionCount = 0
        /\ TotalLinearMomentum' = TotalLinearMomentum
        /\ TotalAngularMomentum' = TotalAngularMomentum
        /\ TotalKineticEnergy' - TotalKineticEnergy <= FMul(h, EnergyDrift)
        /\ TotalKineticEnergy - TotalKineticEnergy' <= FMul(h, EnergyDrift) ]_vars

\* C16, amended: in a world without gravity, contacts and damping, no step
\* changes the linear or the angular momentum of a body that it does not
\* deactivate, and while no body has been deactivated the totals of the
\* world that a step reports are those reported before: the linear and the
\* angular momentum exactly, the kinetic energy within EnergyDrift times the
\* length of the step.
C16_MomentaConservedWhileActive ==
    [][ /\ \A k \in 1..BodyCount :
               /\ ~ Body[k].KineticEnergyDamping
               /\ Body'[k].IsActive =>
                      /\ Body'[k].LinearMomentum = Body[k].LinearMomentum
                      /\ Body'[k].AngularMomentum = Body[k].AngularMomentum
        /\ Gravity = QZero /\ Collisions'.CollisionCount = 0
        /\ (\A k \in 1..BodyCount : Body'[k].IsActive) =>
               /\ TotalLinearMomentum' = TotalLinearMomentum
               /\ TotalAngularMomentum' = TotalAngularMomentum
               /\ TotalKineticEnergy' - TotalKineticEnergy <= FMul(h, EnergyDrift)
               /\ TotalKineticEnergy - TotalKineticEnergy' <= FMul(h, EnergyDrift) ]_vars

\* Two steps were made by two balls that move and spin, and their totals were
\* reported
C16_Witness ==
    /\ pc = "idle"
    /\ TimeStepCount >= 2
    /\ BodyCount = 2
    /\ \A k \in 1..BodyCount : Body[k].IsActive /\ Body[k].LinearMomentum # QZero
    /\ TotalLinearMomentum = SpatialVector(-1000, 500, 0)
    /\ TotalAngularMomentum # QZero
    /\ TotalKineticEnergy > 0

\* C17, as stated: after 100 steps of 0.01 s the ball that fell from the
\* height 10 m is within 0.01 m of the height 5.095 m.
C17_FallsToClosedForm ==
    TimeStepCount = 100 /\ pc = "idle" =>
        Abs(Body[1].Position.y - 5095 * One) <= 10 * One

\* C17, amended: after 100 steps of 0.01 s the ball that fell from the height
\* 10 m is within 0.01 m of the height 5.046 m.
C17_FallsToEulerSum ==
    TimeStepCount = 100 /\ pc = "idle" =>
        Abs(Body[1].Position.y - 5046 * One) <= 10 * One

\* The ball has made its 100 steps, and has fallen
C17_Witness ==
    /\ TimeStepCount = 100
    /\ pc = "idle"
    /\ Time = 100 * One
    /\ Body[1].Position.y < 10000 * One
    /\ Body[1].Velocity.y = -98100

\* C19: a call of Detect on a sphere of radius r at X_s and a half-space of
\* normal n and offset d_plane, with room in the registry, registers no
\* contact when d = n.X_s - r - d_plane >= 0 and one contact when d < 0: that
\* of the body of the sphere with the scenery, with the normal n, the
\* penetration -d and the contact point X_s - n (d + r).
C19_SphereHalfSpaceContact ==
    [][ LET X_s == Body[1].Position
            n == Object[2].Direction
            r == Object[1].Radius
            d == Dot(n, X_s) - r - Object[2].Offset
            point == QSub(X_s, QScale(n, d + r))
            c == Collisions'.Collisions[Collisions'.CollisionCount]
        IN  /\ CallDetect(1, 2)
            /\ Object[1].Class = "Sphere" /\ Object[2].Class = "HalfSpace"
            /\ HasSpaceForMoreContacts(Collisions)
            => /\ d >= 0 => Collisions'.CollisionCount = Collisions.CollisionCount
               /\ d < 0 =>
                      /\ Collisions'.CollisionCount = Collisions.CollisionCount + 1
                      /\ c.Body_A = 1 /\ c.Body_B = 0
                      /\ c.Normal = n
                      /\ c.Penetration = 0 - d /\ c.Penetration > 0
                      /\ c.Position.x = point.x
                      /\ c.Position.y = point.y
                      /\ c.Position.z = point.z ]_vars

\* Detect was called on a sphere that has sunk into a half-space by a
\* thousandth of its radius, and one contact is registered
C19_Witness ==
    /\ calls = 1
    /\ Object[1].Class = "Sphere" /\ Object[2].Class = "HalfSpace"
    /\ Collisions.CollisionCount = 1
    /\ Collisions.Collisions[1].Penetration = 1

\* C20: the position of a geometry of the scenery is the zero vector and its
\* axis i, for i in 0..2, the i-th basis vector of the world; the position
\* of a geometry with a body is column 3 and its axis i column i of the
\* transform of the body.
C20_AxesOfScenery ==
    \A k \in 1..ObjectCount :
        LET g == Object[k]
        IN  /\ g.Body = 0 =>
                   /\ Position(Body, g) = QZero
                   /\ \A i \in 0..2 : Axis(Body, g, i) = Column(TIdentity, i)
            /\ g.Body # 0 =>
                   /\ Position(Body, g) = Column(Body[g.Body].ToWorld, 3)
                   /\ \A i \in 0..2 : Axis(Body, g, i) = Column(Body[g.Body].ToWorld, i)

\* C18, as stated: a call of Detect on two cubes of side 1 with the axes of
\* the world, the second placed (0.9, 0.9, 0.9) from the first, registers one
\* contact, whose penetration is within 0.01 of 0.1 and the three components
\* of whose normal are equal in absolute value.
C18_NormalAlongDiagonal ==
    [][ LET c == Collisions'.Collisions[1]
        IN  /\ CallDetect(1, 2)
            /\ calls = 0
            /\ Object[1].Class = "Cuboid" /\ Object[2].Class = "Cuboid"
            /\ Body[1].Orientation = QOne /\ Body[2].Orientation = QOne
            /\ QSub(Body[2].Position, Body[1].Position) = SpatialVector(900, 900, 900)
            => /\ Collisions'.CollisionCount = 1
               /\ Abs(c.Penetration - One \div 10) <= One \div 100
               /\ Abs(c.Normal.x) = Abs(c.Normal.y)
               /\ Abs(c.Normal.y) = Abs(c.Normal.z) ]_vars

\* C18, amended: a call of Detect on two cubes of side 1 with the axes of the
\* world, the second placed (0.9, 0.9, 0.9) from the first, registers one
\* contact, whose penetration is within 0.01 of 0.1 and whose normal is
\* (-1, 0, 0): that of the first of the axes of the smallest penetration,
\* turned to point from the second cube to the first.
C18_NormalAlongFirstAxis ==
    [][ LET c == Collisions'.Collisions[1]
        IN  /\ CallDetect(1, 2)
            /\ calls = 0
            /\ Object[1].Class = "Cuboid" /\ Object[2].Class = "Cuboid"
            /\ Body[1].Orientation = QOne /\ Body[2].Orientation = QOne
            /\ QSub(Body[2].Position, Body[1].Position) = SpatialVector(900, 900, 900)
            => /\ Collisions'.CollisionCount = 1
               /\ Abs(c.Penetration - One \div 10) <= One \div 100
               /\ c.Normal = SpatialVector(0 - One, 0, 0)
               /\ c.Body_A = 1 /\ c.Body_B = 2 ]_vars

\* Detect was called on the two cubes placed (0.9, 0.9, 0.9) apart, and a
\* contact is registered
C18_Witness ==
    /\ calls = 1
    /\ Object[1].Class = "Cuboid" /\ Object[2].Class = "Cuboid"
    /\ Body[1].Orientation = QOne /\ Body[2].Orientation = QOne
    /\ QSub(Body[2].Position, Body[1].Position) = SpatialVector(900, 900, 900)
    /\ Collisions.CollisionCount = 1
    /\ Collisions.Collisions[1].Penetration = One \div 10

\* The contacts of the registry that are between two bodies
BetweenBodies == { k \in 1..Collisions.CollisionCount : Collisions.Collisions[k].Body_B # 0
                                                          /\ Collisions.Collisions[k].Body_A # 0 }

\* N . (X_B - X_A) of contact k, for a finite normal
AlongCentres(k) ==
    LET c == Collisions.Collisions[k]
    IN  Dot(c.Normal, QSub(Body[c.Body_B].Position, Body[c.Body_A].Position))

C23_UnitNormal ==
    \A k \in 1..Collisions.CollisionCount :
        /\ ~ QIsNaN(Collisions.Collisions[k].Normal)
        /\ Abs(ImNorm(Collisions.Collisions[k].Normal) - One) <= NormTolerance

\* C22: once UpdateDerivedQuantities has run over the registry in a step,
\* body A of every contact is not null, whatever geometries the world holds,
\* pairs of geometries without a body included.
C22_BodyAOfContacts ==
    (\E i \in 1..Len(phases) : phases[i] = "update")
        => \A k \in 1..Collisions.CollisionCount : Collisions.Collisions[k].Body_A # 0

\* The value of contact k that the last search compared
Searched(k) ==
    IF Collisions.Found.search = "penetration" THEN Collisions.Collisions[k].Penetration
    ELSE Collisions.Collisions[k].BouncingVelocity

\* The contacts among the first CollisionCount whose value is above the eps
\* of the last search
Above ==
    { k \in 1..Collisions.CollisionCount :
          Searched(k) # NaN /\ Searched(k) > Collisions.Found.eps }

\* C24: FindLargestBouncingVelocity( eps ) and FindLargestPenetration( eps )
\* return no contact when no contact of the registry has a bouncing velocity
\* (a penetration) strictly greater than eps, and otherwise the contact of
\* the largest value among those, the one of the lowest index when several
\* share it.
C24_LargestFirst ==
    Collisions.Found.search # "none" =>
        IF Above = {} THEN Collisions.Found.contact = 0
        ELSE /\ Collisions.Found.contact \in Above
             /\ \A k \in Above :
                    /\ Searched(k) <= Searched(Collisions.Found.contact)
                    /\ Searched(k) = Searched(Collisions.Found.contact)
                           => Collisions.Found.contact <= k

\* A search for the largest penetration has returned the first of two
\* contacts of the same penetration above eps, and not the third contact of
\* the array, which is not one of the registry
C24_Witness ==
    /\ Collisions.Found.search = "penetration"
    /\ Collisions.Found.contact = 1
    /\ Collisions.CollisionCount = 2
    /\ Collisions.Collisions[1].Penetration = EPS + 1
    /\ Collisions.Collisions[2].Penetration = EPS + 1
    /\ Collisions.Collisions[3].Penetration = 2 * EPS

\* What Detect writes of a contact
AsDetected(c) == <<c.Body_A, c.Body_B, c.Position, c.Normal, c.Penetration>>

\* The two bodies of a contact, in either order
BodiesOf(c) == {c.Body_A, c.Body_B}

\* C25: the registry is reset at the head of the detection of every step.
\* When the detection loops of a step end, Count () is the number of the
\* contacts that the detection of this step has registered and the contacts
\* below Count () are those contacts, as a registry that held nothing before
\* would hold them: none is of an earlier step or of a call made before the
\* step.  The rest of the step registers and drops no contact.
C25_RegistryOfLatestStep ==
    [][ /\ DetectionDone =>
              LET fresh == DetectFrom(CollisionResolver(Collisions.MaxCollisionCount),
                                      Body, <<0, 1>>)
              IN  /\ Count(Collisions) = Count(fresh)
                  /\ Collisions.NextFree = Count(fresh)
                  /\ \A k \in 1..Count(fresh) :
                         AsDetected(Collisions.Collisions[k]) = AsDetected(fresh.Collisions[k])
        /\ pc \in {"update", "impulses", "impulse loop", "projections",
                    "projection loop", "clear"} =>
              /\ Count(Collisions') = Count(Collisions)
              /\ \A k \in 1..Count(Collisions) :
                     BodiesOf(Collisions'.Collisions[k]) = BodiesOf(Collisions.Collisions[k])
      ]_vars

\* The second step of a run has returned with one contact in the registry,
\* after a step that had found two and after a call between the steps
C25_Witness ==
    /\ TimeStepCount = 2
    /\ pc = "idle"
    /\ calls = 1
    /\ Count(Collisions) = 1
    /\ Collisions.Collisions[2].Body_A # 0

\* What the resolver that has selected contact c leaves of the activity of the
\* bodies: when body B exists and one of the two bodies is active, both are
\* active and the one that was not has the average kinetic energy Activate
\* seeds; otherwise no body is woken.  No other body changes its activity.
WakesTheInactive(c) ==
    /\ c.Body_B # 0 /\ Body[c.Body_A].IsActive # Body[c.Body_B].IsActive =>
           /\ Body'[c.Body_A].IsActive /\ Body'[c.Body_B].IsActive
           /\ \A j \in {c.Body_A, c.Body_B} :
                  ~ Body[j].IsActive =>
                      Body'[j].AverageKineticEnergy = FMul(2 * 300, Mass(Body[j]))
    /\ c.Body_B = 0 =>
           Body'[c.Body_A].IsActive = Body[c.Body_A].IsActive
    /\ c.Body_B # 0 /\ ~ Body[c.Body_A].IsActive /\ ~ Body[c.Body_B].IsActive =>
           ~ Body'[c.Body_A].IsActive /\ ~ Body'[c.Body_B].IsActive
    /\ \A j \in 1..BodyCount :
           j \notin {c.Body_A, c.Body_B} =>
               Body'[j].IsActive = Body[j].IsActive

UpdatedAverage(k) ==
      FMul(PowHalf(h), Body[k].AverageKineticEnergy)
    + FMul(One - PowHalf(h),
           BodySolveODE([Body[k] EXCEPT !.CanBeDeactivated = FALSE], h).KineticEnergy)

\* C27: a step deactivates a body only in its integration, only if the body
\* may be deactivated and only if its updated average kinetic energy
\* a E_avg + (1 - a) E_k, a = 0.5^h, is strictly below its threshold, the
\* 0.3 * mass that SetupMass has stored; a body that may not be deactivated
\* stays active through every step.
C27_DeactivatedOnlyAtRest ==
    [][ \A k \in 1..BodyCount :
            calls' = calls /\ Body[k].IsActive /\ ~ Body'[k].IsActive =>
                /\ Integrate
                /\ Body[k].CanBeDeactivated
                /\ UpdatedAverage(k) < Body[k].KineticEnergyThreshold
                /\ Body'[k].AverageKineticEnergy = UpdatedAverage(k) ]_vars

\* The integration of the second step has deactivated a ball that may be
\* deactivated and does not move: its average kinetic energy has gone from
\* 0.6 over 0.3, which is not below the threshold 0.3, to 0.15
C27_Witness ==
    /\ pc = "clock"
    /\ TimeStepCount = 1
    /\ ~ Body[1].IsActive
    /\ Body[1].CanBeDeactivated
    /\ Body[1].KineticEnergyThreshold = 300
    /\ Body[1].AverageKineticEnergy = 150

\* C28: when a step returns, the velocity of every body is M^-1 P and its
\* angular velocity I_w^-1 L, P and L being its momenta, also when an impulse
\* transfer of the step has changed the momenta.  Stated for the worlds that
\* only took steps since their construction, whose velocities and momenta
\* agreed exactly when the step began.
C28_VelocitiesOfMomenta ==
    [][ ClearAll /\ calls = 0 /\ NoNaN(Body') =>
            \A k \in 1..BodyCount :
                /\ Body'[k].Velocity = QScale(Body'[k].LinearMomentum, Body'[k].InverseMass)
                /\ Body'[k].AngularVelocity =
                       TApply(Body'[k].InverseInertiaWorld, Body'[k].AngularMomentum) ]_vars

\* C29: the world starts with the time and the step counter at 0; only the
\* clock statement of a step changes them, it runs once in every step, adds
\* exactly one to the step counter and sets the time to h times the new
\* counter, h being the length of this step, whatever the lengths of the steps
\* before were; so when a step returns the time is h times the number of steps.
C29_ClockOfSteps ==
    /\ Time = 0 /\ TimeStepCount = 0
    /\ [][ /\ clock' # clock =>
                 /\ pc = "clock"
                 /\ TimeStepCount' = TimeStepCount + 1
                 /\ Time' = h * TimeStepCount'
           /\ ClearAll =>
                 /\ Cardinality({i \in 1..Len(phases') : phases'[i] = "clock"}) = 1
                 /\ Time' = h * TimeStepCount' ]_vars

\* A second step, of length 1/10, has returned
C29_Witness ==
    /\ pc = "idle"
    /\ TimeStepCount = 2
    /\ h = One \div 10
    /\ Time = 2 * (One \div 10)

\* C30: within a step the totals of the world (kinetic energy, potential
\* energy, linear momentum, angular momentum) are written once, right after
\* the integration and the clock, as the sums over the bodies as integrated;
\* the collision detection, the impulse transfers, the position projections
\* and the clearing of the accumulators leave them unchanged, so the totals
\* read after the step are those sums, taken before any contact was resolved.
C30_TotalsOfIntegration ==
    [][ /\ AdvanceClock => Body' = Body
        /\ pc # "idle" /\ totals' # totals =>
              /\ pc = "aggregates"
              /\ phases = <<"gravity", "integrate", "clock">>
              /\ Body' = Body
              /\ TotalKineticEnergy' =
                     SumOver([k \in 1..BodyCount |-> Body[k].KineticEnergy], BodyCount)
              /\ TotalPotentialEnergy' =
                     SumOver([k \in 1..BodyCount |-> Body[k].PotentialEnergy], BodyCount)
              /\ TotalLinearMomentum' =
                     QSumOver([k \in 1..BodyCount |-> Body[k].LinearMomentum], BodyCount)
              /\ TotalAngularMomentum' =
                     QSumOver([k \in 1..BodyCount |-> Body[k].TotalAngularMomentum], BodyCount)
        /\ ClearAll => totals' = totals ]_vars

\* A step has returned after an impulse transfer of its own changed the linear
\* momentum of a body: the total is no longer the sum over the bodies
C30_Witness ==
    /\ pc = "idle"
    /\ TimeStepCount > 0
    /\ calls = 0
    /\ NoNaN(Body)
    /\ \E i \in 1..Len(phases) : phases[i] = "impulses"
    /\ entryCount > 0
    /\ TotalLinearMomentum #
           QSumOver([k \in 1..BodyCount |-> Body[k].LinearMomentum], BodyCount)
====
